---------------------------- MODULE Spec2Model ----------------------------
(***************************************************************************)
(* A model of cookiebox: the per-request cookie storage, the typed cookie  *)
(* handles (get / get_all / insert / remove / discard), the attribute      *)
(* builder and the actix middleware that fills the storage from the Cookie *)
(* header, runs the downstream handler and emits the Set-Cookie headers.   *)
(*                                                                         *)
(* Text is a sequence of one-character strings.  A percent-encoded byte    *)
(* ("%20", "%22", "%FF") is one element of such a sequence.  An Option is  *)
(* a set with at most one element: {} is None, {v} is Some(v).             *)
(***************************************************************************)
EXTENDS Naturals, Integers, Sequences, FiniteSets, TLC

VARIABLES
    pc,                \* request -> position of InnerCookieMiddleware::call's future
    header,            \* request -> the request's Cookie header (Option of text)
    handler,           \* request -> the downstream handler: the cookie calls it makes
    results,           \* request -> what each executed call of the handler returned
    ext,               \* request -> req.extensions(): Option of the attached Storage
    request_storage,   \* storage -> Storage.request_storage (inbound entries, in order)
    response_storage,  \* storage -> Storage.response_storage (outbound, keyed by id)
    drained,           \* request -> what response_storage.take() returned (Option)
    response_headers,  \* request -> Set-Cookie values appended to the handler's response
    outcome,           \* request -> what call's future resolved to
    attrs              \* the Attributes value TypeV::attributes() has built

vars == <<pc, header, handler, results, ext, request_storage, response_storage,
          drained, response_headers, outcome, attrs>>

-----------------------------------------------------------------------------
(* Bounds of the model *)

\* In-flight request slots of one worker.
NumReq == 2
\* Cookie calls a downstream handler makes in one request.
MaxOps == 2
\* Length of the exhaustively enumerated Cookie headers.
MaxHdrLen == 4

Reqs == 1..NumReq

-----------------------------------------------------------------------------
(* Text helpers: str::split, str::trim, str::split_once, char::is_whitespace *)

None == {}
Some(v) == {v}
Unwrap(o) == CHOOSE v \in o : TRUE

Whitespace == {" ", "\t"}

\* cookie.chars().all(char::is_whitespace)
AllWhitespace(s) == \A i \in 1..Len(s) : s[i] \in Whitespace

RECURSIVE TrimStart(_)
TrimStart(s) ==
    IF s # <<>> /\ Head(s) \in Whitespace THEN TrimStart(Tail(s)) ELSE s

RECURSIVE TrimEnd(_)
TrimEnd(s) ==
    IF s # <<>> /\ s[Len(s)] \in Whitespace
    THEN TrimEnd(SubSeq(s, 1, Len(s) - 1))
    ELSE s

\* str::trim
Trim(s) == TrimEnd(TrimStart(s))

\* Index of the first occurrence of c in s, 0 when there is none.
IndexOf(s, c) ==
    IF \E i \in 1..Len(s) : s[i] = c
    THEN CHOOSE i \in 1..Len(s) : s[i] = c /\ \A j \in 1..(i - 1) : s[j] # c
    ELSE 0

\* str::split(sep): the pieces between separators, empty pieces included.
RECURSIVE Split(_, _)
Split(s, sep) ==
    LET i == IndexOf(s, sep)
    IN  IF i = 0
        THEN <<s>>
        ELSE <<SubSeq(s, 1, i - 1)>> \o Split(SubSeq(s, i + 1, Len(s)), sep)

\* Mutant: the segment is split around its last '='.
SplitOnce_Last(s) ==
    LET at == {i \in 1..Len(s) : s[i] = "="}
        i == CHOOSE k \in at : \A j \in at : j <= k
    IN  IF at = {}
        THEN None
        ELSE Some(<<SubSeq(s, 1, i - 1), SubSeq(s, i + 1, Len(s))>>)

\* str::split_once('='): None, or Some(<<before, after>>) around the first '='.
SplitOnce(s) ==
    LET i == IndexOf(s, "=")
    IN  IF i = 0
        THEN None
        ELSE Some(<<SubSeq(s, 1, i - 1), SubSeq(s, i + 1, Len(s))>>)

-----------------------------------------------------------------------------
(* The protection collaborator: biscotti's Processor, as the middleware    *)
(* is given it.  It percent-decodes every incoming name and value and      *)
(* decrypts the cookies its crypto rules name; outgoing cookies get the    *)
(* reverse.  The ciphertext of a text p is written <<"#">> \o p.           *)

\* The cookie names the processor's crypto rule protects.
EncryptedNames == {<<"e">>}

\* A percent-encoded byte that is no valid UTF-8.
InvalidUtf8 == {"%FF"}

\* Bytes outside visible ASCII: HeaderValue::to_str refuses a header holding one.
OpaqueBytes == {"<80>"}

\* Control characters: HeaderValue::from_str refuses a value holding one.
ControlChars == {"\n"}

DecodeByte(c) ==
    CASE c = "%20" -> " "
      [] c = "%22" -> "\""
      [] c = "%25" -> "%"
      [] c = "%3B" -> ";"
      [] c = "%3D" -> "="
      [] OTHER -> c

EncodeByte(c) ==
    CASE c = " " -> "%20"
      [] c = "\"" -> "%22"
      [] c = "%" -> "%25"
      [] c = ";" -> "%3B"
      [] c = "=" -> "%3D"
      [] OTHER -> c

PercentDecode(s) == [i \in 1..Len(s) |-> DecodeByte(s[i])]
PercentEncode(s) == [i \in 1..Len(s) |-> EncodeByte(s[i])]

Decrypt(v) == IF v # <<>> /\ Head(v) = "#" THEN Some(Tail(v)) ELSE None
Encrypt(v) == <<"#">> \o v

\* ProcessIncomingError is open to further variants, which extract_cookies
\* meets with its `_` arm: the names the processor refuses with one that is
\* neither Crypto nor Decoding.
UnclassifiedNames == {<<"u">>}

\* Processor::process_incoming(name, value): Ok(RequestCookie) or
\* Err(ProcessIncomingError::{Crypto, Decoding, ..}).
ProcessIncoming(name, value) ==
    IF (\E i \in 1..Len(name) : name[i] \in InvalidUtf8)
       \/ (\E j \in 1..Len(value) : value[j] \in InvalidUtf8)
    THEN [ok |-> FALSE, class |-> "Decoding", cookie |-> <<>>]
    ELSE LET n == PercentDecode(name)
             v == PercentDecode(value)
         IN  IF n \in UnclassifiedNames
             THEN [ok |-> FALSE, class |-> "Other", cookie |-> <<>>]
             ELSE IF n \in EncryptedNames
             THEN IF Decrypt(v) = None
                  THEN [ok |-> FALSE, class |-> "Crypto", cookie |-> <<>>]
                  ELSE [ok |-> TRUE, class |-> "none",
                        cookie |-> [name |-> n, value |-> Unwrap(Decrypt(v))]]
             ELSE [ok |-> TRUE, class |-> "none",
                   cookie |-> [name |-> n, value |-> v]]

-----------------------------------------------------------------------------
(* middleware.rs: extract_cookies *)

\* Mutant: whatever is not a Crypto error is taken for a Decoding error.
ClassText_NoUnknown(class) ==
    IF class = "Crypto" THEN "an encrypted" ELSE "a singed"

\* The `t` of the protection error message, by the error's variant.
ClassText(class) ==
    IF class = "Crypto" THEN "an encrypted"
    ELSE IF class = "Decoding" THEN "a singed"
    ELSE "an unknown"

NoEqualsError(segment) == [kind |-> "NoEquals", about |-> segment, t |-> ""]
EmptyNameError(value) == [kind |-> "EmptyName", about |-> value, t |-> ""]
ProcessError(name, class) ==
    [kind |-> "Process", about |-> name, t |-> ClassText(class)]
EncodingError == [kind |-> "Encoding", about |-> <<>>, t |-> ""]

\* HeaderValue::to_str
ToStrOk(text) == \A i \in 1..Len(text) : text[i] \notin OpaqueBytes

\* Mutant: a segment that is malformed or that the protection step refuses
\* is dropped and the loop goes on.
ExtractSegment_SkipMalformed(cookie, store) ==
    IF AllWhitespace(cookie) \/ SplitOnce(cookie) = None
    THEN [err |-> None, store |-> store]
    ELSE LET pair == Unwrap(SplitOnce(cookie))
             name == Trim(pair[1])
             value == Trim(pair[2])
             p == ProcessIncoming(name, value)
         IN  IF name = <<>> \/ ~p.ok
             THEN [err |-> None, store |-> store]
             ELSE [err |-> None, store |-> Append(store, p.cookie)]

\* Mutant: the check of the empty name is missing.
ExtractSegment_AllowEmptyName(cookie, store) ==
    IF AllWhitespace(cookie)
    THEN [err |-> None, store |-> store]
    ELSE IF SplitOnce(cookie) = None
    THEN [err |-> Some(NoEqualsError(cookie)), store |-> store]
    ELSE LET pair == Unwrap(SplitOnce(cookie))
             name == Trim(pair[1])
             value == Trim(pair[2])
             p == ProcessIncoming(name, value)
         IN  IF ~p.ok
             THEN [err |-> Some(ProcessError(name, p.class)), store |-> store]
             ELSE [err |-> None, store |-> Append(store, p.cookie)]

\* Mutant: name and value are taken from the segment without trim().
ExtractSegment_NoTrim(cookie, store) ==
    IF AllWhitespace(cookie)
    THEN [err |-> None, store |-> store]
    ELSE IF SplitOnce(cookie) = None
    THEN [err |-> Some(NoEqualsError(cookie)), store |-> store]
    ELSE LET pair == Unwrap(SplitOnce(cookie))
             name == pair[1]
             value == pair[2]
         IN  IF name = <<>>
             THEN [err |-> Some(EmptyNameError(value)), store |-> store]
             ELSE LET p == ProcessIncoming(name, value)
                  IN  IF ~p.ok
                      THEN [err |-> Some(ProcessError(name, p.class)),
                            store |-> store]
                      ELSE [err |-> None, store |-> Append(store, p.cookie)]

\* One pass of the for loop's body over segment `cookie`, with `store` the
\* inbound entries appended so far: the error to return, or the store after
\* the pass.
ExtractSegment(cookie, store) ==
    IF AllWhitespace(cookie)
    THEN [err |-> None, store |-> store]
    ELSE IF SplitOnce(cookie) = None
    THEN [err |-> Some(NoEqualsError(cookie)), store |-> store]
    ELSE LET pair == Unwrap(SplitOnce(cookie))
             name == Trim(pair[1])
             value == Trim(pair[2])
         IN  IF name = <<>>
             THEN [err |-> Some(EmptyNameError(value)), store |-> store]
             ELSE LET p == ProcessIncoming(name, value)
                  IN  IF ~p.ok
                      THEN [err |-> Some(ProcessError(name, p.class)),
                            store |-> store]
                      ELSE [err |-> None, store |-> Append(store, p.cookie)]

\* Mutant: the loop goes on after an error and returns the first one when
\* it is through.
RECURSIVE ExtractLoop_GoesOn(_, _, _)
ExtractLoop_GoesOn(segments, i, store) ==
    IF i > Len(segments)
    THEN [err |-> None, store |-> store]
    ELSE LET step == ExtractSegment(segments[i], store)
             rest == ExtractLoop_GoesOn(segments, i + 1, step.store)
         IN  IF step.err # None
             THEN [err |-> step.err, store |-> rest.store]
             ELSE rest

\* The for loop from segment i on: it stops at the first error.
RECURSIVE ExtractLoop(_, _, _)
ExtractLoop(segments, i, store) ==
    IF i > Len(segments)
    THEN [err |-> None, store |-> store]
    ELSE LET step == ExtractSegment(segments[i], store)
         IN  IF step.err # None
             THEN step
             ELSE ExtractLoop(segments, i + 1, step.store)

\* Mutant: a header that cannot be read as a string is taken as no header.
extract_cookies_UnreadableAsAbsent(cookie_header, store) ==
    IF cookie_header = None
    THEN [err |-> None, store |-> store]
    ELSE IF ~ToStrOk(Unwrap(cookie_header))
    THEN [err |-> None, store |-> store]
    ELSE ExtractLoop(Split(Unwrap(cookie_header), ";"), 1, store)

\* extract_cookies(req, processor, storage): the Result's error (None for
\* Ok(())) and the storage's inbound entries when it returns.
extract_cookies(cookie_header, store) ==
    IF cookie_header = None
    THEN [err |-> None, store |-> store]
    ELSE IF ~ToStrOk(Unwrap(cookie_header))
    THEN [err |-> Some(EncodingError), store |-> store]
    ELSE ExtractLoop(Split(Unwrap(cookie_header), ";"), 1, store)

-----------------------------------------------------------------------------
(* attributes.rs: the Attributes builder.  Times are hours since the Unix  *)
(* epoch, durations are hours.                                             *)

UnixEpoch == 0
\* The time the program runs at, and the date the tests set as `expires`.
Now == UnixEpoch + 24 * 365 * 57
TestDate == UnixEpoch + 24 * 19737
\* ResponseCookie::make_permanent: twenty years.
PermanentHours == 24 * 20 * 365

\* Attributes::new
AttributesNew ==
    [path |-> None, domain |-> None, secure |-> None, http_only |-> None,
     partitioned |-> None, same_site |-> None, max_age |-> None,
     expires |-> None, permanent |-> FALSE]

\* Mutant: the default attribute set does not set http-only.
AttributesDefault_NoHttpOnly ==
    [path |-> Some(<<"/">>), domain |-> None, secure |-> None,
     http_only |-> None, partitioned |-> None,
     same_site |-> Some("Lax"), max_age |-> None, expires |-> None,
     permanent |-> FALSE]

\* impl Default for Attributes
AttributesDefault ==
    [path |-> Some(<<"/">>), domain |-> None, secure |-> None,
     http_only |-> Some(TRUE), partitioned |-> None,
     same_site |-> Some("Lax"), max_age |-> None, expires |-> None,
     permanent |-> FALSE]

\* The setters.  path and domain take a value, the others an Option.
attr_path(a, v) == [a EXCEPT !.path = Some(v)]
attr_domain(a, v) == [a EXCEPT !.domain = Some(v)]
attr_secure(a, o) == [a EXCEPT !.secure = o]
attr_http_only(a, o) == [a EXCEPT !.http_only = o]
\* Mutant: setting same-site to None also sets the secure flag.
attr_same_site_SetsSecure(a, o) ==
    IF o = Some("None")
    THEN [a EXCEPT !.same_site = o, !.secure = Some(TRUE)]
    ELSE [a EXCEPT !.same_site = o]

attr_same_site(a, o) == [a EXCEPT !.same_site = o]
attr_max_age(a, o) == [a EXCEPT !.max_age = o]
attr_expires(a, o) == [a EXCEPT !.expires = o]
attr_partitioned(a, o) == [a EXCEPT !.partitioned = o]
attr_permanent(a, b) == [a EXCEPT !.permanent = b]

-----------------------------------------------------------------------------
(* biscotti's cookies, as cookies.rs and attributes.rs build them *)

\* ResponseCookie::new(name, value)
ResponseCookieNew(name, value) ==
    [name |-> name, value |-> value, path |-> None, domain |-> None,
     secure |-> None, http_only |-> None, same_site |-> None,
     partitioned |-> None, max_age |-> None, expires |-> None]

\* RemovalCookie::new(name) and ResponseCookieId::new(name)
RemovalCookieNew(name) == [name |-> name, path |-> None, domain |-> None]
ResponseCookieIdNew(name) == [name |-> name, path |-> None, domain |-> None]

\* ResponseCookie::make_permanent
make_permanent(c) ==
    [c EXCEPT !.max_age = Some(PermanentHours),
              !.expires = Some(Now + PermanentHours)]

\* Mutant: the builder's own max-age and expires are applied after the
\* cookie is made permanent.
set_attributes_response_KeepsOwnAge(cookie, attributes) ==
    LET c1 == IF attributes.path # None
              THEN [cookie EXCEPT !.path = attributes.path] ELSE cookie
        c2 == IF attributes.domain # None
              THEN [c1 EXCEPT !.domain = attributes.domain] ELSE c1
        c3 == IF attributes.permanent THEN make_permanent(c2) ELSE c2
        c4 == IF attributes.max_age # None \/ ~attributes.permanent
              THEN [c3 EXCEPT !.max_age = attributes.max_age] ELSE c3
        c5 == IF attributes.expires # None
              THEN [c4 EXCEPT !.expires = attributes.expires] ELSE c4
    IN  [c5 EXCEPT !.secure = attributes.secure,
                   !.http_only = attributes.http_only,
                   !.same_site = attributes.same_site,
                   !.partitioned = attributes.partitioned]

\* impl AttributesSetter for ResponseCookie
set_attributes_response(cookie, attributes) ==
    LET c1 == IF attributes.path # None
              THEN [cookie EXCEPT !.path = attributes.path] ELSE cookie
        c2 == IF attributes.domain # None
              THEN [c1 EXCEPT !.domain = attributes.domain] ELSE c1
        c3 == IF attributes.permanent
              THEN make_permanent(c2)
              ELSE LET m == [c2 EXCEPT !.max_age = attributes.max_age]
                   IN  IF attributes.expires # None
                       THEN [m EXCEPT !.expires = attributes.expires]
                       ELSE m
    IN  [c3 EXCEPT !.secure = attributes.secure,
                   !.http_only = attributes.http_only,
                   !.same_site = attributes.same_site,
                   !.partitioned = attributes.partitioned]

\* Mutant: the removal cookie is given the path and not the domain.
set_attributes_removal_PathOnly(cookie, attributes) ==
    IF attributes.path # None
    THEN [cookie EXCEPT !.path = attributes.path] ELSE cookie

\* impl AttributesSetter for RemovalCookie
set_attributes_removal(cookie, attributes) ==
    LET c1 == IF attributes.path # None
              THEN [cookie EXCEPT !.path = attributes.path] ELSE cookie
    IN  IF attributes.domain # None
        THEN [c1 EXCEPT !.domain = attributes.domain] ELSE c1

\* The AttributesSetter of ResponseCookieId that Cookie::discard calls:
\* "This sets the path and domain only".
set_attributes_id(id, attributes) ==
    LET i1 == IF attributes.path # None
              THEN [id EXCEPT !.path = attributes.path] ELSE id
    IN  IF attributes.domain # None
        THEN [i1 EXCEPT !.domain = attributes.domain] ELSE i1

\* From<RemovalCookie> for ResponseCookie: an empty value that expired at
\* the epoch.
RemovalToResponse(removal) ==
    [ResponseCookieNew(removal.name, <<>>)
        EXCEPT !.path = removal.path, !.domain = removal.domain,
               !.expires = Some(UnixEpoch)]

\* Mutant: the domain is reported as it was set.
cookie_domain_NoStrip(c) == c.domain

\* ResponseCookie::domain: the domain without its leading dot.
cookie_domain(c) ==
    IF c.domain = None THEN None
    ELSE LET d == Unwrap(c.domain)
         IN  IF d # <<>> /\ Head(d) = "." THEN Some(Tail(d)) ELSE Some(d)

\* ResponseCookie::id: the (name, path, domain) an outbound entry is keyed by.
CookieId(c) == [name |-> c.name, path |-> c.path, domain |-> c.domain]

\* Mutant: the entries are keyed by name alone.
StorageInsert_ByName(cookies, c) ==
    {x \in cookies : x.name # c.name} \cup {c}

\* Mutant: insert adds the entry and leaves the one of the same id.
StorageInsert_Add(cookies, c) == cookies \cup {c}

\* ResponseCookies::insert: the entry of the same id, if any, is replaced.
StorageInsert(cookies, c) ==
    {x \in cookies : CookieId(x) # CookieId(c)} \cup {c}

\* ResponseCookies::discard
StorageDiscard(cookies, id) == {x \in cookies : CookieId(x) # id}

\* RequestCookies::append
StorageAppend(entries, cookie) == Append(entries, cookie)

-----------------------------------------------------------------------------
(* cookies.rs: the cookie types an application declares and the typed      *)
(* handle Cookie<T>.  Every type reads and writes a String.                *)

CookieTypes == {"TypeA", "TypeB", "TypeC", "TypeM"}

\* CookieName::COOKIE_NAME
CookieName(T) ==
    CASE T = "TypeA" -> <<"a">>
      [] T = "TypeB" -> <<"a">>
      [] T = "TypeC" -> <<"c">>
      [] T = "TypeM" -> <<"t", " ", "a">>
      [] T = "TypeN" -> <<"c">>
      [] T = "TypeX" -> <<"b">>
      [] T = "TypeDom" -> <<"a">>
      [] T = "TypePD" -> <<"a">>
      [] T = "TypeBare" -> <<"a">>
      [] T = "TypeV" -> <<"v">>

\* OutgoingConfig::attributes: the default of the trait (TypeA), a second
\* path for the name of TypeA (TypeB), every attribute set (TypeC, as the
\* unit tests' TypeC) and no path (TypeM, as the middleware test's type).
TypeAttributes(T) ==
    CASE T = "TypeA" -> AttributesDefault
      [] T = "TypeB" -> attr_path(AttributesNew, <<"/", "p">>)
      [] T = "TypeC" ->
            attr_max_age(
              attr_expires(
                attr_partitioned(
                  attr_http_only(
                    attr_secure(
                      attr_same_site(
                        attr_domain(attr_path(AttributesNew, <<"/", "s">>),
                                    <<".", ".", "d">>),
                        Some("Lax")),
                      Some(TRUE)),
                    Some(TRUE)),
                  Some(TRUE)),
                Some(TestDate)),
              Some(10))
      [] T = "TypeM" ->
            attr_http_only(attr_same_site(AttributesNew, Some("Lax")),
                           Some(TRUE))
      [] T = "TypeX" -> attr_path(AttributesNew, <<"/", "\n">>)
      [] T = "TypeDom" -> attr_domain(AttributesNew, <<"d">>)
      [] T = "TypePD" ->
            attr_domain(attr_path(AttributesNew, <<"/">>), <<"d">>)
      [] T = "TypeBare" -> AttributesNew
      [] T = "TypeV" -> attrs

\* The values a handler inserts.
Values == {<<"x">>, <<"y">>}

\* OutgoingConfig::serialize then to_string: the JSON text of a String.
Serialize(v) == <<"\"">> \o v \o <<"\"">>

\* serde_json::from_str::<String>: Some(text) for a JSON string, else None.
Deserialize(raw) ==
    IF Len(raw) >= 2 /\ raw[1] = "\"" /\ raw[Len(raw)] = "\""
       /\ \A i \in 2..(Len(raw) - 1) : raw[i] # "\""
    THEN Some(SubSeq(raw, 2, Len(raw) - 1))
    ELSE None

\* IncomingConfig::Get of a type, by its type_name: TypeN reads an i32 under
\* the name of TypeC, every other type a String.
GetShape(T) == IF T = "TypeN" THEN "i32" ELSE "String"

\* The decimal digits and the number a text of digits stands for.
DigitOf(c) ==
    CASE c = "0" -> 0 [] c = "1" -> 1 [] c = "2" -> 2 [] c = "3" -> 3
      [] c = "4" -> 4 [] c = "5" -> 5 [] c = "6" -> 6 [] c = "7" -> 7
      [] c = "8" -> 8 [] c = "9" -> 9 [] OTHER -> -1

NumberOf(raw) ==
    LET F[i \in 0..Len(raw)] ==
            IF i = 0 THEN 0 ELSE 10 * F[i - 1] + DigitOf(raw[i])
    IN  F[Len(raw)]

\* serde_json::from_str::<i32>: Some(n) for a JSON number without sign,
\* fraction or leading zero, else None.
DeserializeNumber(raw) ==
    IF /\ raw # <<>>
       /\ \A i \in 1..Len(raw) : DigitOf(raw[i]) >= 0
       /\ (Len(raw) > 1 => raw[1] # "0")
    THEN Some(NumberOf(raw))
    ELSE None

\* serde_json::from_str::<T::Get>
DeserializeAs(T, raw) ==
    IF GetShape(T) = "i32" THEN DeserializeNumber(raw) ELSE Deserialize(raw)

\* Mutant: a handle is built on cells of its own, not on a clone of the
\* storage it is given.
CookieNew_OwnCells(sid, T) ==
    [storage |-> (sid % NumReq) + 1, attributes |-> None, type |-> T]

\* Mutant: a new handle holds the default attribute set as its own.
CookieNew_WithDefault(sid, T) ==
    [storage |-> sid, attributes |-> Some(AttributesDefault), type |-> T]

\* Cookie::new(&storage): a handle of type T on storage sid.
CookieNew(sid, T) == [storage |-> sid, attributes |-> None, type |-> T]

\* Mutant: a field the handle's own attribute set leaves unset is taken from
\* the type's.
ResolveAttributes_Merge(cookie) ==
    IF cookie.attributes # None
    THEN LET own == Unwrap(cookie.attributes)
             declared == TypeAttributes(cookie.type)
         IN  [f \in DOMAIN own |->
                 IF f = "permanent" THEN own[f] \/ declared[f]
                 ELSE IF own[f] # None THEN own[f] ELSE declared[f]]
    ELSE TypeAttributes(cookie.type)

\* The attribute set a write resolves to: the handle's own if it has one,
\* else the type's.
ResolveAttributes(cookie) ==
    IF cookie.attributes # None
    THEN Unwrap(cookie.attributes)
    ELSE TypeAttributes(cookie.type)

\* What the calls of a handle return.
Unit == [kind |-> "Unit", data |-> <<>>, shape |-> ""]
OkValue(v) == [kind |-> "Ok", data |-> v, shape |-> ""]
NotFound(name) == [kind |-> "NotFound", data |-> name, shape |-> ""]
DeserializationError(raw, shape) ==
    [kind |-> "Deserialization", data |-> raw, shape |-> shape]

\* The inbound entries of a name, in arrival order.
ValuesOf(entries, name) ==
    LET F[i \in 0..Len(entries)] ==
            IF i = 0 THEN <<>>
            ELSE IF entries[i].name = name
                 THEN Append(F[i - 1], entries[i].value)
                 ELSE F[i - 1]
    IN  F[Len(entries)]

\* Mutant: get returns the entry that arrived last under the name.
cookie_get_Last(cookie, entries) ==
    LET all == ValuesOf(entries, CookieName(cookie.type))
    IN  IF all = <<>>
        THEN NotFound(CookieName(cookie.type))
        ELSE IF DeserializeAs(cookie.type, all[Len(all)]) = None
             THEN DeserializationError(all[Len(all)], GetShape(cookie.type))
             ELSE OkValue(Unwrap(DeserializeAs(cookie.type, all[Len(all)])))

\* Mutant: a value that does not parse is reported as a missing cookie.
cookie_get_NotFoundOnBadValue(cookie, entries) ==
    LET all == ValuesOf(entries, CookieName(cookie.type))
    IN  IF all = <<>> \/ DeserializeAs(cookie.type, all[1]) = None
        THEN NotFound(CookieName(cookie.type))
        ELSE OkValue(Unwrap(DeserializeAs(cookie.type, all[1])))

\* Cookie::get
cookie_get(cookie, entries) ==
    LET all == ValuesOf(entries, CookieName(cookie.type))
    IN  IF all = <<>>
        THEN NotFound(CookieName(cookie.type))
        ELSE IF DeserializeAs(cookie.type, all[1]) = None
             THEN DeserializationError(all[1], GetShape(cookie.type))
             ELSE OkValue(Unwrap(DeserializeAs(cookie.type, all[1])))

\* Mutant: the values that do not parse are left out of the result.
cookie_get_all_SkipBad(cookie, entries) ==
    LET all == ValuesOf(entries, CookieName(cookie.type))
        G[i \in 0..Len(all)] ==
            IF i = 0 THEN <<>>
            ELSE IF DeserializeAs(cookie.type, all[i]) = None
                 THEN G[i - 1]
                 ELSE Append(G[i - 1],
                             Unwrap(DeserializeAs(cookie.type, all[i])))
    IN  IF all = <<>>
        THEN NotFound(CookieName(cookie.type))
        ELSE OkValue(G[Len(all)])

\* Cookie::get_all
cookie_get_all(cookie, entries) ==
    LET all == ValuesOf(entries, CookieName(cookie.type))
        bad == {i \in 1..Len(all) : DeserializeAs(cookie.type, all[i]) = None}
    IN  IF all = <<>>
        THEN NotFound(CookieName(cookie.type))
        ELSE IF bad # {}
             THEN DeserializationError(
                      all[CHOOSE i \in bad : \A j \in bad : i <= j],
                      GetShape(cookie.type))
             ELSE OkValue([i \in 1..Len(all) |->
                              Unwrap(DeserializeAs(cookie.type, all[i]))])

\* Mutant: the cookie is inserted without its attributes.
cookie_insert_NoAttributes(cookie, value, cookies) ==
    StorageInsert(cookies,
        ResponseCookieNew(CookieName(cookie.type), Serialize(value)))

\* Cookie::insert: the outbound entries after the call.
cookie_insert(cookie, value, cookies) ==
    LET response_cookie ==
            ResponseCookieNew(CookieName(cookie.type), Serialize(value))
    IN  StorageInsert(cookies,
            set_attributes_response(response_cookie,
                                    ResolveAttributes(cookie)))

\* Mutant: remove drops the outbound entry and leaves no removal cookie.
cookie_remove_Erase(cookie, cookies) ==
    StorageDiscard(cookies,
        CookieId(RemovalToResponse(
            set_attributes_removal(RemovalCookieNew(CookieName(cookie.type)),
                                   ResolveAttributes(cookie)))))

\* Mutant: the removal cookie is given every attribute of the set.
cookie_remove_AllAttributes(cookie, cookies) ==
    StorageInsert(cookies,
        [set_attributes_response(
             ResponseCookieNew(CookieName(cookie.type), <<>>),
             ResolveAttributes(cookie))
            EXCEPT !.expires = Some(UnixEpoch)])

\* Cookie::remove
cookie_remove(cookie, cookies) ==
    LET removal_cookie == RemovalCookieNew(CookieName(cookie.type))
    IN  StorageInsert(cookies,
            RemovalToResponse(
                set_attributes_removal(removal_cookie,
                                       ResolveAttributes(cookie))))

\* Mutant: the id to discard is built from the name alone.
cookie_discard_NameOnly(cookie, cookies) ==
    StorageDiscard(cookies, ResponseCookieIdNew(CookieName(cookie.type)))

\* Mutant: discard leaves a removal cookie where it is.
cookie_discard_KeepsRemovals(cookie, cookies) ==
    LET discard_id ==
            set_attributes_id(ResponseCookieIdNew(CookieName(cookie.type)),
                              ResolveAttributes(cookie))
    IN  {x \in cookies :
            CookieId(x) # discard_id \/ x.expires = Some(UnixEpoch)}

\* Cookie::discard
cookie_discard(cookie, cookies) ==
    LET discard_id == ResponseCookieIdNew(CookieName(cookie.type))
    IN  StorageDiscard(cookies,
            set_attributes_id(discard_id, ResolveAttributes(cookie)))

-----------------------------------------------------------------------------
(* Rendering: ResponseCookies::header_values and HeaderValue::from_str *)

\* Mutant: name and value are written out without percent-encoding.
ProcessOutgoing_NoEncoding(c) ==
    [c EXCEPT !.value = IF c.name \in EncryptedNames
                        THEN Encrypt(c.value)
                        ELSE c.value]

\* Processor::process_outgoing: encrypt what the crypto rule names, then
\* percent-encode name and value.
ProcessOutgoing(c) ==
    [c EXCEPT !.name = PercentEncode(c.name),
              !.value = PercentEncode(IF c.name \in EncryptedNames
                                      THEN Encrypt(c.value)
                                      ELSE c.value)]

FormatHttpDate(t) ==
    IF t = UnixEpoch THEN <<"Thu, 01 Jan 1970 00:00:00 GMT">>
    ELSE <<"@", ToString(t)>>

\* Mutant: Secure is written only for a cookie whose secure flag is true.
RenderCookie_SecureOnlyExplicit(c) ==
    c.name \o <<"=">> \o c.value
    \o (IF c.http_only = Some(TRUE) THEN <<"; HttpOnly">> ELSE <<>>)
    \o (IF c.same_site # None
        THEN <<"; SameSite=", Unwrap(c.same_site)>> ELSE <<>>)
    \o (IF c.partitioned = Some(TRUE) THEN <<"; Partitioned">> ELSE <<>>)
    \o (IF c.secure = Some(TRUE) THEN <<"; Secure">> ELSE <<>>)
    \o (IF c.path # None THEN <<"; Path=">> \o Unwrap(c.path) ELSE <<>>)
    \o (IF c.domain # None
        THEN <<"; Domain=">> \o Unwrap(cookie_domain(c)) ELSE <<>>)
    \o (IF c.max_age # None
        THEN <<"; Max-Age=", ToString(3600 * Unwrap(c.max_age))>> ELSE <<>>)
    \o (IF c.expires # None
        THEN <<"; Expires=">> \o FormatHttpDate(Unwrap(c.expires)) ELSE <<>>)

\* Display for ResponseCookie: `name=value` and the attributes that are set.
RenderCookie(c) ==
    c.name \o <<"=">> \o c.value
    \o (IF c.http_only = Some(TRUE) THEN <<"; HttpOnly">> ELSE <<>>)
    \o (IF c.same_site # None
        THEN <<"; SameSite=", Unwrap(c.same_site)>> ELSE <<>>)
    \o (IF c.partitioned = Some(TRUE) THEN <<"; Partitioned">> ELSE <<>>)
    \o (IF c.secure = Some(TRUE)
           \/ (c.secure = None
               /\ (c.same_site = Some("None") \/ c.partitioned = Some(TRUE)))
        THEN <<"; Secure">> ELSE <<>>)
    \o (IF c.path # None THEN <<"; Path=">> \o Unwrap(c.path) ELSE <<>>)
    \o (IF c.domain # None
        THEN <<"; Domain=">> \o Unwrap(cookie_domain(c)) ELSE <<>>)
    \o (IF c.max_age # None
        THEN <<"; Max-Age=", ToString(3600 * Unwrap(c.max_age))>> ELSE <<>>)
    \o (IF c.expires # None
        THEN <<"; Expires=">> \o FormatHttpDate(Unwrap(c.expires)) ELSE <<>>)

\* One value of header_values(processor)
HeaderValueOf(c) == RenderCookie(ProcessOutgoing(c))

\* HeaderValue::from_str
FromStrOk(text) == \A i \in 1..Len(text) : text[i] \notin ControlChars

-----------------------------------------------------------------------------
(* The downstream handler: the cookie calls it makes, in order, through    *)
(* handles built from the Storage it finds in the request's extensions.    *)

Ops ==
    [op : {"insert"}, type : CookieTypes, value : Values]
    \cup [op : {"remove", "discard", "get", "get_all"},
          type : CookieTypes, value : {<<>>}]

\* The handlers of at most n calls.
Handlers(n) == UNION {[1..k -> Ops] : k \in 0..n}

Call(op, T) == [op |-> op, type |-> T, value |-> <<>>]
InsertCall(T, v) == [op |-> "insert", type |-> T, value |-> v]

\* The routes of the middleware test's application (register, get, get-all,
\* remove), on TypeM and on TypeA.
RouteHandlers ==
    {<<InsertCall("TypeM", <<"x">>)>>,
     <<Call("get", "TypeM")>>,
     <<Call("get_all", "TypeM")>>,
     <<Call("remove", "TypeM")>>,
     <<Call("get", "TypeA"), InsertCall("TypeA", <<"y">>)>>,
     <<InsertCall("TypeA", <<"x">>), Call("discard", "TypeA")>>}

-----------------------------------------------------------------------------
(* middleware.rs: InnerCookieMiddleware::call, one request per slot *)

\* Mutant: one Storage is made when the middleware is built and every
\* request is handed a clone of it.
StorageOf_Shared(r) == 1

\* Storage::new() of call: every request gets cells of its own.
StorageOf(r) == r

Pending == [kind |-> "Pending", error |-> None]
\* Ok(response): the handler's response, with the Set-Cookie headers.
Responded == [kind |-> "Response", error |-> None]
\* Err(e500(e)): an InternalError whose response is 500 Internal Server Error.
e500(kind, e) == [kind |-> kind, error |-> Some(e), status |-> 500]
\* The handler's own error, passed on by `?`.
HandlerFailed == [kind |-> "HandlerError", error |-> None]

\* The sequences that enumerate a set: the orders a HashMap may iterate in.
Orderings(S) ==
    {f \in [1..Cardinality(S) -> S] :
        \A i, j \in 1..Cardinality(S) : i # j => f[i] # f[j]}

\* Mutant: the Result of extract_cookies is dropped and the request goes on.
Extract_IgnoreError(r) ==
    /\ pc[r] = "Idle"
    /\ request_storage' = [request_storage EXCEPT
           ![r] = extract_cookies(header[r], request_storage[r]).store]
    /\ pc' = [pc EXCEPT ![r] = "HeaderParsed"]
    /\ UNCHANGED <<attrs, header, handler, results, ext, response_storage, drained,
                   response_headers, outcome>>

\* Line 98: extract_cookies(&req, &processor, storage.clone()).map_err(e500)?
Extract(r) ==
    /\ pc[r] = "Idle"
    /\ LET sid == StorageOf(r)
           res == extract_cookies(header[r], request_storage[sid])
       IN  /\ request_storage' = [request_storage EXCEPT ![sid] = res.store]
           /\ IF res.err = None
              THEN /\ pc' = [pc EXCEPT ![r] = "HeaderParsed"]
                   /\ UNCHANGED outcome
              ELSE /\ pc' = [pc EXCEPT ![r] = "Failed"]
                   /\ outcome' = [outcome EXCEPT
                          ![r] = e500("ExtractError", Unwrap(res.err))]
    /\ UNCHANGED <<attrs, header, handler, results, ext, response_storage, drained,
                   response_headers>>

\* Mutant: the request is given a Storage::new() of its own making, not a
\* clone of the one call extracts into and drains.
Invoke_OtherStorage(r) ==
    /\ pc[r] = "HeaderParsed"
    /\ ext' = [ext EXCEPT ![r] = Some((r % NumReq) + 1)]
    /\ pc' = [pc EXCEPT ![r] = "HandlerInvoked"]
    /\ UNCHANGED <<attrs, header, handler, results, request_storage,
                   response_storage, drained, response_headers, outcome>>

\* Mutant: the downstream service is called before the header is extracted.
Invoke_BeforeExtract(r) ==
    /\ pc[r] \in {"Idle", "HeaderParsed"}
    /\ ext' = [ext EXCEPT ![r] = Some(r)]
    /\ pc' = [pc EXCEPT ![r] = "HandlerInvoked"]
    /\ UNCHANGED <<attrs, header, handler, results, request_storage,
                   response_storage, drained, response_headers, outcome>>

\* Lines 100-102: the storage is attached to the request's extensions and the
\* downstream service is called; the future then waits for it.
Invoke(r) ==
    /\ pc[r] = "HeaderParsed"
    /\ ext' = [ext EXCEPT ![r] = Some(StorageOf(r))]
    /\ pc' = [pc EXCEPT ![r] = "HandlerInvoked"]
    /\ UNCHANGED <<attrs, header, handler, results, request_storage,
                   response_storage, drained, response_headers, outcome>>

\* The handler's next call, when it is `op`.
NextCallIs(r, op) ==
    /\ pc[r] = "HandlerInvoked"
    /\ ext[r] # None
    /\ Len(results[r]) < Len(handler[r])
    /\ handler[r][Len(results[r]) + 1].op = op

NextCall(r) == handler[r][Len(results[r]) + 1]

\* The handle the call is made through: Cookie::new(&storage), whose
\* attributes field is None.  A call that names an attribute set of its own
\* is made through a handle whose field holds that set.
Handle(r) ==
    IF "override" \in DOMAIN NextCall(r)
    THEN [CookieNew(Unwrap(ext[r]), NextCall(r).type)
             EXCEPT !.attributes = NextCall(r).override]
    ELSE CookieNew(Unwrap(ext[r]), NextCall(r).type)

\* Mutant: get takes the entry it reads out of the inbound collection.
Get_Consumes(r) ==
    /\ NextCallIs(r, "get")
    /\ results' = [results EXCEPT ![r] =
           Append(@, cookie_get(Handle(r), request_storage[Handle(r).storage]))]
    /\ request_storage' = [request_storage EXCEPT ![Handle(r).storage] =
           LET hit == {i \in 1..Len(@) :
                          @[i].name = CookieName(NextCall(r).type)}
           IN  IF hit = {} THEN @
               ELSE LET f == CHOOSE i \in hit : \A j \in hit : i <= j
                    IN  SubSeq(@, 1, f - 1) \o SubSeq(@, f + 1, Len(@))]
    /\ UNCHANGED <<attrs, pc, header, handler, ext,
                   response_storage, drained, response_headers, outcome>>

Get(r) ==
    /\ NextCallIs(r, "get")
    /\ results' = [results EXCEPT ![r] =
           Append(@, cookie_get(Handle(r), request_storage[Handle(r).storage]))]
    /\ UNCHANGED <<attrs, pc, header, handler, ext, request_storage,
                   response_storage, drained, response_headers, outcome>>

GetAll(r) ==
    /\ NextCallIs(r, "get_all")
    /\ results' = [results EXCEPT ![r] =
           Append(@, cookie_get_all(Handle(r),
                                    request_storage[Handle(r).storage]))]
    /\ UNCHANGED <<attrs, pc, header, handler, ext, request_storage,
                   response_storage, drained, response_headers, outcome>>

\* Mutant: insert also appends the cookie to the inbound collection.
Insert_AlsoInbound(r) ==
    /\ NextCallIs(r, "insert")
    /\ response_storage' = [response_storage EXCEPT ![Handle(r).storage] =
           cookie_insert(Handle(r), NextCall(r).value, @)]
    /\ request_storage' = [request_storage EXCEPT ![Handle(r).storage] =
           StorageAppend(@, [name |-> CookieName(NextCall(r).type),
                             value |-> Serialize(NextCall(r).value)])]
    /\ results' = [results EXCEPT ![r] = Append(@, Unit)]
    /\ UNCHANGED <<attrs, pc, header, handler, ext, drained,
                   response_headers, outcome>>

Insert(r) ==
    /\ NextCallIs(r, "insert")
    /\ response_storage' = [response_storage EXCEPT ![Handle(r).storage] =
           cookie_insert(Handle(r), NextCall(r).value, @)]
    /\ results' = [results EXCEPT ![r] = Append(@, Unit)]
    /\ UNCHANGED <<attrs, pc, header, handler, ext, request_storage, drained,
                   response_headers, outcome>>

Remove(r) ==
    /\ NextCallIs(r, "remove")
    /\ response_storage' = [response_storage EXCEPT ![Handle(r).storage] =
           cookie_remove(Handle(r), @)]
    /\ results' = [results EXCEPT ![r] = Append(@, Unit)]
    /\ UNCHANGED <<attrs, pc, header, handler, ext, request_storage, drained,
                   response_headers, outcome>>

\* Mutant: discard reports a missing cookie when no entry has its key.
Discard_ErrWhenMissing(r) ==
    /\ NextCallIs(r, "discard")
    /\ response_storage' = [response_storage EXCEPT ![Handle(r).storage] =
           cookie_discard(Handle(r), @)]
    /\ results' = [results EXCEPT ![r] =
           Append(@, IF cookie_discard(Handle(r),
                                       response_storage[Handle(r).storage])
                        = response_storage[Handle(r).storage]
                     THEN NotFound(CookieName(NextCall(r).type))
                     ELSE Unit)]
    /\ UNCHANGED <<attrs, pc, header, handler, ext, request_storage, drained,
                   response_headers, outcome>>

Discard(r) ==
    /\ NextCallIs(r, "discard")
    /\ response_storage' = [response_storage EXCEPT ![Handle(r).storage] =
           cookie_discard(Handle(r), @)]
    /\ results' = [results EXCEPT ![r] = Append(@, Unit)]
    /\ UNCHANGED <<attrs, pc, header, handler, ext, request_storage, drained,
                   response_headers, outcome>>

\* The Set-Cookie values process_response_cookies appends to the response
\* before it returns, iterating the taken cookies in `order`: all of them, or
\* those before the first one HeaderValue::from_str refuses.
Appended(order) ==
    LET values == [i \in 1..Len(order) |-> HeaderValueOf(order[i])]
        bad == {i \in 1..Len(order) : ~FromStrOk(values[i])}
    IN  IF bad = {}
        THEN values
        ELSE SubSeq(values, 1, (CHOOSE i \in bad : \A j \in bad : i <= j) - 1)

\* Mutant: the response cookies are processed without waiting for the
\* handler to finish.
HandlerReturnsOk_Early(r) ==
    /\ pc[r] = "HandlerInvoked"
    /\ LET taken == response_storage[r]
       IN  /\ response_storage' = [response_storage EXCEPT ![r] = {}]
           /\ drained' = [drained EXCEPT ![r] = Some(taken)]
           /\ \E order \in Orderings(taken) :
                /\ response_headers' = [response_headers EXCEPT
                       ![r] = @ \o Appended(order)]
                /\ IF Len(Appended(order)) = Len(order)
                   THEN /\ pc' = [pc EXCEPT ![r] = "ResponseEmitted"]
                        /\ outcome' = [outcome EXCEPT ![r] = Responded]
                   ELSE /\ pc' = [pc EXCEPT ![r] = "Failed"]
                        /\ outcome' = [outcome EXCEPT
                               ![r] = e500("RenderError",
                                   [kind |-> "Render", about |-> <<>>,
                                    t |-> ""])]
    /\ UNCHANGED <<attrs, header, handler, results, ext, request_storage>>

\* Mutant: a value HeaderValue::from_str refuses ends the loop and the
\* response is returned with the headers appended so far.
HandlerReturnsOk_KeepsResponse(r) ==
    /\ pc[r] = "HandlerInvoked"
    /\ Len(results[r]) = Len(handler[r])
    /\ LET taken == response_storage[r]
       IN  /\ response_storage' = [response_storage EXCEPT ![r] = {}]
           /\ drained' = [drained EXCEPT ![r] = Some(taken)]
           /\ \E order \in Orderings(taken) :
                response_headers' = [response_headers EXCEPT
                    ![r] = @ \o Appended(order)]
           /\ pc' = [pc EXCEPT ![r] = "ResponseEmitted"]
           /\ outcome' = [outcome EXCEPT ![r] = Responded]
    /\ UNCHANGED <<attrs, header, handler, results, ext, request_storage>>

\* Mutant: the outbound cookies are borrowed and rendered, not taken.
HandlerReturnsOk_NoTake(r) ==
    /\ pc[r] = "HandlerInvoked"
    /\ Len(results[r]) = Len(handler[r])
    /\ LET taken == response_storage[r]
       IN  /\ drained' = [drained EXCEPT ![r] = Some(taken)]
           /\ \E order \in Orderings(taken) :
                /\ response_headers' = [response_headers EXCEPT
                       ![r] = @ \o [i \in 1..Len(order) |->
                                       HeaderValueOf(order[i])]]
                /\ pc' = [pc EXCEPT ![r] = "ResponseEmitted"]
                /\ outcome' = [outcome EXCEPT ![r] = Responded]
    /\ UNCHANGED <<attrs, header, handler, results, ext, request_storage,
                   response_storage>>

\* Lines 102-111, the handler having returned Ok(response):
\* process_response_cookies takes the outbound cookies and appends one
\* Set-Cookie header per cookie; a refused value ends the request in e500.
HandlerReturnsOk(r) ==
    /\ pc[r] = "HandlerInvoked"
    /\ Len(results[r]) = Len(handler[r])
    /\ LET sid == StorageOf(r)
           taken == response_storage[sid]
       IN  /\ response_storage' = [response_storage EXCEPT ![sid] = {}]
           /\ drained' = [drained EXCEPT ![r] = Some(taken)]
           /\ \E order \in Orderings(taken) :
                /\ response_headers' = [response_headers EXCEPT
                       ![r] = @ \o Appended(order)]
                /\ IF Len(Appended(order)) = Len(order)
                   THEN /\ pc' = [pc EXCEPT ![r] = "ResponseEmitted"]
                        /\ outcome' = [outcome EXCEPT ![r] = Responded]
                   ELSE /\ pc' = [pc EXCEPT ![r] = "Failed"]
                        /\ outcome' = [outcome EXCEPT
                               ![r] = e500("RenderError",
                                   [kind |-> "Render", about |-> <<>>,
                                    t |-> ""])]
    /\ UNCHANGED <<attrs, header, handler, results, ext, request_storage>>

\* Mutant: the handler's error is dropped; the call ends without a result.
HandlerReturnsErr_NoResult(r) ==
    /\ pc[r] = "HandlerInvoked"
    /\ pc' = [pc EXCEPT ![r] = "Failed"]
    /\ UNCHANGED <<attrs, header, handler, results, ext, request_storage,
                   response_storage, drained, response_headers, outcome>>

\* Mutant: the handler's error is returned after the outbound cookies were
\* taken and written to the response.
HandlerReturnsErr_StillEmits(r) ==
    /\ pc[r] = "HandlerInvoked"
    /\ pc' = [pc EXCEPT ![r] = "Failed"]
    /\ outcome' = [outcome EXCEPT ![r] = HandlerFailed]
    /\ drained' = [drained EXCEPT ![r] = Some(response_storage[r])]
    /\ response_storage' = [response_storage EXCEPT ![r] = {}]
    /\ \E order \in Orderings(response_storage[r]) :
          response_headers' = [response_headers EXCEPT
              ![r] = @ \o Appended(order)]
    /\ UNCHANGED <<attrs, header, handler, results, ext, request_storage>>

\* Line 102, the handler having returned Err(e): `?` passes it on.
HandlerReturnsErr(r) ==
    /\ pc[r] = "HandlerInvoked"
    /\ pc' = [pc EXCEPT ![r] = "Failed"]
    /\ outcome' = [outcome EXCEPT ![r] = HandlerFailed]
    /\ UNCHANGED <<attrs, header, handler, results, ext, request_storage,
                   response_storage, drained, response_headers>>

\* Mutant: dropping the future still processes the response cookies.
Cancel_StillDrains(r) ==
    /\ pc[r] = "HandlerInvoked"
    /\ pc' = [pc EXCEPT ![r] = "Cancelled"]
    /\ drained' = [drained EXCEPT ![r] = Some(response_storage[r])]
    /\ response_storage' = [response_storage EXCEPT ![r] = {}]
    /\ \E order \in Orderings(response_storage[r]) :
          response_headers' = [response_headers EXCEPT
              ![r] = @ \o Appended(order)]
    /\ UNCHANGED <<attrs, header, handler, results, ext, request_storage, outcome>>

\* The future is dropped while it waits for the handler (the client went
\* away): nothing of it runs again.
Cancel(r) ==
    /\ pc[r] = "HandlerInvoked"
    /\ pc' = [pc EXCEPT ![r] = "Cancelled"]
    /\ UNCHANGED <<attrs, header, handler, results, ext, request_storage,
                   response_storage, drained, response_headers, outcome>>

Next ==
    \E r \in Reqs :
        \/ Extract(r)
        \/ Invoke(r)
        \/ Get(r)
        \/ GetAll(r)
        \/ Insert(r)
        \/ Remove(r)
        \/ Discard(r)
        \/ HandlerReturnsOk(r)
        \/ HandlerReturnsErr(r)
        \/ Cancel(r)

-----------------------------------------------------------------------------
(* The requests *)

\* Cookie headers of the tests and of the kinds extract_cookies tells apart.
Hdr_a1_b2 == <<"a", "=", "1", ";", " ", "b", "=", "2">>
Hdr_a1b2_ == <<"a", "=", "1", ";", "b", "=", "2", ";">>
Hdr_c1_c2 == <<"c", "=", "1", ";", " ", "c", "=", "2">>
Hdr_noeq == <<"a", "1">>
Hdr_noname == <<"=", "1">>
Hdr_test == <<"t", "%20", "a", "=", "%22", "x", "%22">>
Hdr_test2 ==
    <<"t", "%20", "a", "=", "%22", "x", "%22", ";", " ",
      "t", "%20", "a", "=", "%22", "y", "%22", ";">>
Hdr_ax == <<"a", "=", "%22", "x", "%22">>
Hdr_ay == <<"a", "=", "%22", "y", "%22">>
Hdr_ax_noeq == <<"a", "=", "%22", "x", "%22", ";", " ", "a", "1">>
Hdr_enc == <<"e", "=", "#", "1">>
Hdr_badenc == <<"a", "=", "1", ";", "e", "=", "1">>
Hdr_badutf8 == <<"a", "=", "%FF">>
Hdr_opaque == <<"a", "=", "<80>">>
Hdr_noeq_opaque == <<"a", "1", ";", "a", "=", "<80>">>
Hdr_badutf8_noeq == <<"a", "=", "%FF", ";", "a", "1">>
Hdr_other == <<"a", "=", "1", ";", " ", "u", "=", "1">>

ExampleHeaders ==
    {None} \cup
    {Some(t) : t \in {Hdr_a1_b2, Hdr_a1b2_, Hdr_c1_c2, Hdr_noeq, Hdr_noname,
                      Hdr_test, Hdr_test2, Hdr_ax, Hdr_ay, Hdr_ax_noeq,
                      Hdr_enc, Hdr_badenc, Hdr_badutf8, Hdr_opaque,
                      Hdr_noeq_opaque,
                      Hdr_badutf8_noeq, Hdr_other}}

\* The headers every handler is run against.
MainHeaders == {Some(Hdr_ax), Some(Hdr_test2)}

\* Every text of at most n characters over the characters of a header.
HeaderChars == {"a", "=", ";", " ", "1"}
Texts(n) == UNION {[1..k -> HeaderChars] : k \in 0..n}

\* Slot 1 holds a request with header h and handler p; the other slots are
\* free.
OneRequest(h, p) ==
    /\ attrs = AttributesNew
    /\ pc = [r \in Reqs |-> IF r = 1 THEN "Idle" ELSE "NoRequest"]
    /\ header = [r \in Reqs |-> IF r = 1 THEN h ELSE None]
    /\ handler = [r \in Reqs |-> IF r = 1 THEN p ELSE <<>>]
    /\ results = [r \in Reqs |-> <<>>]
    /\ ext = [r \in Reqs |-> None]
    /\ request_storage = [sid \in Reqs |-> <<>>]
    /\ response_storage = [sid \in Reqs |-> {}]
    /\ drained = [r \in Reqs |-> None]
    /\ response_headers = [r \in Reqs |-> <<>>]
    /\ outcome = [r \in Reqs |-> Pending]

\* One request: every example header with the test's routes, and every
\* handler of at most MaxOps calls with the main headers.
Init ==
    \/ \E h \in ExampleHeaders, p \in RouteHandlers : OneRequest(h, p)
    \/ \E h \in MainHeaders, p \in Handlers(MaxOps) : OneRequest(h, p)

Spec == Init /\ [][Next]_vars

\* One request, with every header of at most MaxHdrLen characters.
InitParse ==
    \E h \in {Some(t) : t \in Texts(MaxHdrLen)} \cup ExampleHeaders,
       p \in RouteHandlers : OneRequest(h, p)

SpecParse == InitParse /\ [][Next]_vars

\* Every slot holds a request, all in flight at once on one worker.
ConcHeaders == {Some(Hdr_ax), Some(Hdr_ay)}
ConcHandlers ==
    {<<Call("get", "TypeA"), InsertCall("TypeA", <<"y">>)>>,
     <<InsertCall("TypeA", <<"x">>), Call("discard", "TypeB")>>,
     <<Call("get_all", "TypeA"), Call("remove", "TypeA")>>}

InitConc ==
    /\ attrs = AttributesNew
    /\ pc = [r \in Reqs |-> "Idle"]
    /\ header \in [Reqs -> ConcHeaders]
    /\ handler \in [Reqs -> ConcHandlers]
    /\ results = [r \in Reqs |-> <<>>]
    /\ ext = [r \in Reqs |-> None]
    /\ request_storage = [sid \in Reqs |-> <<>>]
    /\ response_storage = [sid \in Reqs |-> {}]
    /\ drained = [r \in Reqs |-> None]
    /\ response_headers = [r \in Reqs |-> <<>>]
    /\ outcome = [r \in Reqs |-> Pending]

SpecConc == InitConc /\ [][Next]_vars

-----------------------------------------------------------------------------
(* What the properties speak of *)

\* The segments of a header text, and those that are not blank.
Segments(text) == Split(text, ";")
NonBlank(text) == SelectSeq(Segments(text), LAMBDA seg : ~AllWhitespace(seg))

\* A segment of the form name=value with a name.
WellFormed(seg) ==
    /\ \E i \in 1..Len(seg) : seg[i] = "="
    /\ Trim(SubSeq(seg, 1, IndexOf(seg, "=") - 1)) # <<>>

\* What the protection step makes of a well-formed segment.
Protected(seg) ==
    ProcessIncoming(Trim(SubSeq(seg, 1, IndexOf(seg, "=") - 1)),
                    Trim(SubSeq(seg, IndexOf(seg, "=") + 1, Len(seg))))

\* Every segment of the header is blank or well-formed and accepted by the
\* protection step.
HeaderAccepted(h) ==
    \/ h = None
    \/ /\ ToStrOk(Unwrap(h))
       /\ \A i \in 1..Len(NonBlank(Unwrap(h))) :
            /\ WellFormed(NonBlank(Unwrap(h))[i])
            /\ Protected(NonBlank(Unwrap(h))[i]).ok

\* The request's handler may run, is running or has run.
HandlerReached(r) ==
    \/ pc[r] \in {"HandlerInvoked", "ResponseEmitted", "Cancelled"}
    \/ ext[r] # None
    \/ results[r] # <<>>

\* The identity (name, path, domain) the writes of a cookie type act on.
KeyOfType(T) ==
    [name |-> CookieName(T), path |-> TypeAttributes(T).path,
     domain |-> TypeAttributes(T).domain]

IsWrite(call) == call.op \in {"insert", "remove"}
TouchesOutbound(call) == call.op \in {"insert", "remove", "discard"}

\* The outbound entry an insert or a remove of the handler stands for.
WrittenCookie(call) ==
    IF call.op = "insert"
    THEN set_attributes_response(
             ResponseCookieNew(CookieName(call.type), Serialize(call.value)),
             TypeAttributes(call.type))
    ELSE [ResponseCookieNew(CookieName(call.type), <<>>)
             EXCEPT !.path = TypeAttributes(call.type).path,
                    !.domain = TypeAttributes(call.type).domain,
                    !.expires = Some(UnixEpoch)]

\* Per identity, the last write among the first n calls of handler h that no
\* later discard of the identity retracted.
Surviving(h, n) ==
    {WrittenCookie(h[i]) :
        i \in {k \in 1..n :
                 /\ IsWrite(h[k])
                 /\ \A j \in (k + 1)..n :
                      TouchesOutbound(h[j])
                          => KeyOfType(h[j].type) # KeyOfType(h[k].type)}}

\* The outbound entries of storage sid under identity id.
EntriesOf(sid, id) == {c \in response_storage[sid] : CookieId(c) = id}

\* The values of a sequence of Set-Cookie headers.
HeaderSet(hs) == {hs[i] : i \in 1..Len(hs)}

-----------------------------------------------------------------------------
(* The properties *)

\* C1: all-or-nothing inbound visibility.  Whenever the handler of a request
\* is reached (the storage is attached, the handler is invoked or has made a
\* call), every segment of the Cookie header was parsed and accepted by the
\* protection step and the inbound collection holds one entry per non-blank
\* segment; a request whose header has a malformed or refused segment never
\* leaves Idle except to fail, with no storage attached and no call made.
C1_AllOrNothingInbound ==
    \A r \in Reqs :
        /\ HandlerReached(r) =>
              /\ HeaderAccepted(header[r])
              /\ Len(request_storage[StorageOf(r)]) =
                    IF header[r] = None THEN 0
                    ELSE Len(NonBlank(Unwrap(header[r])))
        /\ ~HeaderAccepted(header[r]) =>
              /\ pc[r] \in {"Idle", "Failed"}
              /\ ext[r] = None
              /\ results[r] = <<>>

\* C1 witness: a request failed on a later segment after an earlier one was
\* appended; the partly filled storage was never attached.
C1_Witness ==
    \E r \in Reqs :
        /\ pc[r] = "Failed"
        /\ outcome[r].kind = "ExtractError"
        /\ request_storage[StorageOf(r)] # <<>>
        /\ ext[r] = None

\* C2: emission follows the handler and reflects the final outbound state.
\* No Set-Cookie header exists while the handler has not returned, and the
\* response of a handled request carries exactly one Set-Cookie header per
\* identity whose last write no discard retracted, that write's and no
\* other: none for an entry replaced or discarded during the handler.
C2_EmissionAfterHandler ==
    \A r \in Reqs :
        /\ response_headers[r] # <<>> =>
              /\ pc[r] \in {"ResponseEmitted", "Failed"}
              /\ Len(results[r]) = Len(handler[r])
        /\ pc[r] = "ResponseEmitted" =>
              /\ Len(response_headers[r]) =
                    Cardinality(Surviving(handler[r], Len(handler[r])))
              /\ HeaderSet(response_headers[r]) =
                    {HeaderValueOf(c) :
                        c \in Surviving(handler[r], Len(handler[r]))}

\* C2 witness: a handler inserted twice under one identity with different
\* values and the response carries the one header of the second insert.
C2_Witness ==
    \E r \in Reqs :
        /\ pc[r] = "ResponseEmitted"
        /\ Len(handler[r]) = 2
        /\ handler[r][1].op = "insert" /\ handler[r][2].op = "insert"
        /\ handler[r][1].type = handler[r][2].type
        /\ handler[r][1].value # handler[r][2].value
        /\ response_headers[r] = <<HeaderValueOf(WrittenCookie(handler[r][2]))>>

\* C3: last write wins.  Right after an insert that follows an insert under
\* the same (name, path, domain), the outbound collection holds exactly one
\* entry of that identity, with the value and the attributes of the second
\* insert.
C3_LastWriteWins ==
    \A r \in Reqs :
        LET n == Len(results[r])
        IN  (/\ pc[r] = "HandlerInvoked"
             /\ n >= 2
             /\ handler[r][n - 1].op = "insert"
             /\ handler[r][n].op = "insert"
             /\ KeyOfType(handler[r][n - 1].type) = KeyOfType(handler[r][n].type))
            => EntriesOf(StorageOf(r), KeyOfType(handler[r][n].type))
                  = {WrittenCookie(handler[r][n])}

\* C3 witness: two inserts of different values through the handle with
\* every attribute set have run.
C3_Witness ==
    \E r \in Reqs :
        /\ pc[r] = "HandlerInvoked"
        /\ Len(results[r]) = 2
        /\ handler[r][1] = InsertCall("TypeC", <<"x">>)
        /\ handler[r][2] = InsertCall("TypeC", <<"y">>)
        /\ \E c \in response_storage[StorageOf(r)] :
              c.value = Serialize(<<"y">>) /\ c.max_age = Some(10)

\* C4: right after remove(), the outbound collection holds exactly one entry
\* of the handle's (name, path, domain): it has an empty value and expires
\* at the epoch, which is in the past.  A live entry of that identity is
\* gone: the one entry is the removal.
C4_RemoveLeavesSentinel ==
    \A r \in Reqs :
        LET n == Len(results[r])
        IN  (pc[r] = "HandlerInvoked" /\ n >= 1 /\ handler[r][n].op = "remove")
            => \E c \in response_storage[StorageOf(r)] :
                  /\ EntriesOf(StorageOf(r), KeyOfType(handler[r][n].type)) = {c}
                  /\ c.value = <<>>
                  /\ c.expires = Some(UnixEpoch)
                  /\ UnixEpoch < Now

\* C4 witness: a remove ran after an insert under the same identity.
C4_Witness ==
    \E r \in Reqs :
        /\ pc[r] = "HandlerInvoked"
        /\ Len(results[r]) = 2
        /\ handler[r][1].op = "insert" /\ handler[r][2].op = "remove"
        /\ handler[r][1].type = handler[r][2].type
        /\ Cardinality(response_storage[StorageOf(r)]) = 1

\* The header values a write under identity id could be emitted as.
HeadersOfKey(id) ==
    {HeaderValueOf(WrittenCookie(call)) :
        call \in {o \in Ops : IsWrite(o) /\ KeyOfType(o.type) = id}}

\* C5: discard() retracts a pending insert.  Right after a discard that
\* follows an insert under the same (name, path, domain), the outbound
\* collection holds no entry of that identity; and when the handler's last
\* call on an identity was a discard, the drain holds no entry of it and the
\* response no Set-Cookie header of it, neither a value nor a removal.
C5_DiscardRetracts ==
    \A r \in Reqs :
        LET n == Len(results[r])
        IN  /\ (/\ pc[r] = "HandlerInvoked"
                /\ n >= 2
                /\ handler[r][n - 1].op = "insert"
                /\ handler[r][n].op = "discard"
                /\ KeyOfType(handler[r][n - 1].type) = KeyOfType(handler[r][n].type))
               => EntriesOf(StorageOf(r), KeyOfType(handler[r][n].type)) = {}
            /\ (/\ pc[r] = "ResponseEmitted"
                /\ n >= 2
                /\ handler[r][n - 1].op = "insert"
                /\ handler[r][n].op = "discard"
                /\ KeyOfType(handler[r][n - 1].type) = KeyOfType(handler[r][n].type))
               => /\ \A c \in Unwrap(drained[r]) :
                        CookieId(c) # KeyOfType(handler[r][n].type)
                  /\ HeaderSet(response_headers[r])
                        \cap HeadersOfKey(KeyOfType(handler[r][n].type)) = {}

\* C5 witness: insert then discard through one handle, and the response was
\* emitted without a Set-Cookie header.
C5_Witness ==
    \E r \in Reqs :
        /\ pc[r] = "ResponseEmitted"
        /\ Len(handler[r]) = 2
        /\ handler[r][1].op = "insert" /\ handler[r][2].op = "discard"
        /\ handler[r][1].type = handler[r][2].type
        /\ drained[r] = Some({})
        /\ response_headers[r] = <<>>

\* The inbound entries the header of request r alone gives rise to.
OwnInbound(r) == extract_cookies(header[r], <<>>).store

\* What call i of the handler of request r returns when it acts on the
\* cookies of request r alone.
OwnResult(r, i) ==
    LET call == handler[r][i]
    IN  IF call.op = "get"
        THEN cookie_get(CookieNew(r, call.type), OwnInbound(r))
        ELSE IF call.op = "get_all"
        THEN cookie_get_all(CookieNew(r, call.type), OwnInbound(r))
        ELSE Unit

\* C6: per-request isolation under interleaving.  With every request in
\* flight at once, no two requests are attached the same storage, every
\* call a handler has made returned what the Cookie header of its own
\* request gives, and an emitted response carries the Set-Cookie headers of
\* the surviving writes of its own handler and no others.
C6_RequestIsolation ==
    \A r \in Reqs :
        /\ \A q \in Reqs : q # r => ext[q] \cap ext[r] = {}
        /\ \A i \in 1..Len(results[r]) : results[r][i] = OwnResult(r, i)
        /\ pc[r] = "ResponseEmitted" =>
              /\ Len(response_headers[r]) =
                    Cardinality(Surviving(handler[r], Len(handler[r])))
              /\ HeaderSet(response_headers[r]) =
                    {HeaderValueOf(c) :
                        c \in Surviving(handler[r], Len(handler[r]))}

\* C6 witness: two requests with different headers are both suspended in
\* their handlers, each one call in, one having read and one having written.
C6_Witness ==
    \E r, q \in Reqs :
        /\ r # q
        /\ header[r] # header[q]
        /\ pc[r] = "HandlerInvoked" /\ pc[q] = "HandlerInvoked"
        /\ Len(results[r]) = 1 /\ Len(results[q]) = 1
        /\ results[r][1].kind = "Ok"
        /\ response_storage[StorageOf(q)] # {}

\* C7: the drain is take-and-clear and happens once per handled request.
\* Nothing is drained before the handler has returned Ok; once the response
\* is emitted the outbound collection is empty and every entry that was
\* taken was rendered into exactly one Set-Cookie header.
C7_DrainOnce ==
    \A r \in Reqs :
        /\ drained[r] # None =>
              /\ pc[r] \in {"ResponseEmitted", "Failed"}
              /\ outcome[r].kind \in {"Response", "RenderError"}
              /\ response_storage[StorageOf(r)] = {}
        /\ pc[r] = "ResponseEmitted" =>
              /\ drained[r] # None
              /\ Len(response_headers[r]) = Cardinality(Unwrap(drained[r]))
              /\ \A c \in Unwrap(drained[r]) :
                    Cardinality({i \in 1..Len(response_headers[r]) :
                        response_headers[r][i] = HeaderValueOf(c)}) = 1

\* C7 witness: two entries were drained and the collection is empty.
C7_Witness ==
    \E r \in Reqs :
        /\ pc[r] = "ResponseEmitted"
        /\ drained[r] # None
        /\ Cardinality(Unwrap(drained[r])) = 2
        /\ response_storage[StorageOf(r)] = {}

\* The lifecycle's order.
Rank(p) ==
    CASE p = "Idle" -> 0
      [] p = "HeaderParsed" -> 1
      [] p = "HandlerInvoked" -> 2
      [] p = "ResponseEmitted" -> 3
      [] OTHER -> 4

\* C8: the lifecycle only moves forward.  Each step of a request goes from
\* Idle to HeaderParsed, from HeaderParsed to HandlerInvoked or from
\* HandlerInvoked to ResponseEmitted, or ends it (Failed from Idle or from
\* HandlerInvoked, Cancelled from HandlerInvoked); an ended request never
\* moves again, so the handler is invoked at most once, after extraction and
\* before emission.  A request without Cookie header reaches its handler
\* with an empty inbound collection.
C8_LifecycleForward ==
    [][\A r \in Reqs :
          /\ pc'[r] # pc[r] =>
                \/ Rank(pc[r]) < 3 /\ Rank(pc'[r]) = Rank(pc[r]) + 1
                \/ pc[r] \in {"Idle", "HandlerInvoked"} /\ pc'[r] = "Failed"
                \/ pc[r] = "HandlerInvoked" /\ pc'[r] = "Cancelled"
          /\ (pc'[r] = "HandlerInvoked" /\ header[r] = None) =>
                request_storage'[StorageOf(r)] = <<>>]_vars

\* C8 witness: a request without Cookie header went through to its
\* response, its handler having read.
C8_Witness ==
    \E r \in Reqs :
        /\ pc[r] = "ResponseEmitted"
        /\ header[r] = None
        /\ results[r] # <<>>
        /\ results[r][1].kind = "NotFound"

\* A non-blank segment with no `=` or with an empty trimmed name.
Malformed(seg) == ~AllWhitespace(seg) /\ ~WellFormed(seg)
HasMalformed(text) == \E i \in 1..Len(Segments(text)) : Malformed(Segments(text)[i])
FirstMalformed(text) ==
    CHOOSE i \in 1..Len(Segments(text)) :
        /\ Malformed(Segments(text)[i])
        /\ \A j \in 1..(i - 1) : ~Malformed(Segments(text)[j])

\* A well-formed segment before segment i that the protection step refuses.
RefusedBefore(text, i) ==
    \E j \in 1..(i - 1) :
        /\ ~AllWhitespace(Segments(text)[j])
        /\ WellFormed(Segments(text)[j])
        /\ ~Protected(Segments(text)[j]).ok

MalformedKinds == {"NoEquals", "EmptyName"}

\* C9 as stated: a header with a malformed segment fails with the
\* malformed-header error, whatever surrounds the segment.
C9_AsStated ==
    \A r \in Reqs :
        (/\ pc[r] \notin {"NoRequest", "Idle"}
         /\ header[r] # None
         /\ HasMalformed(Unwrap(header[r])))
        => /\ pc[r] = "Failed"
           /\ outcome[r].kind = "ExtractError"
           /\ Unwrap(outcome[r].error).kind \in MalformedKinds

\* C9 amended: a header that reads as a string and has a malformed segment
\* makes extraction fail, however many well-formed segments surround the
\* segment; the error is the malformed-header error of the first malformed
\* segment unless a segment before it is refused by the protection step, and
\* then it is that segment's protection error.
C9_MalformedFails ==
    \A r \in Reqs :
        (/\ pc[r] \notin {"NoRequest", "Idle"}
         /\ header[r] # None
         /\ ToStrOk(Unwrap(header[r]))
         /\ HasMalformed(Unwrap(header[r])))
        => LET text == Unwrap(header[r])
               seg == Segments(text)[FirstMalformed(text)]
           IN  /\ pc[r] = "Failed"
               /\ outcome[r].kind = "ExtractError"
               /\ IF RefusedBefore(text, FirstMalformed(text))
                  THEN Unwrap(outcome[r].error).kind = "Process"
                  ELSE Unwrap(outcome[r].error).kind =
                          IF SplitOnce(seg) = None THEN "NoEquals"
                          ELSE "EmptyName"

\* C9 witness: extraction failed on a segment without `=` that follows an
\* accepted segment.
C9_Witness ==
    \E r \in Reqs :
        /\ pc[r] = "Failed"
        /\ outcome[r].kind = "ExtractError"
        /\ Unwrap(outcome[r].error).kind = "NoEquals"
        /\ request_storage[StorageOf(r)] # <<>>

\* The header text without blank segments and without the whitespace around
\* its segments.
RECURSIVE Join(_)
Join(segs) ==
    IF segs = <<>> THEN <<>>
    ELSE IF Len(segs) = 1 THEN segs[1]
    ELSE segs[1] \o <<";">> \o Join(Tail(segs))

Canonical(text) ==
    Join([i \in 1..Len(NonBlank(text)) |-> Trim(NonBlank(text)[i])])

Entry(n, v) == [name |-> n, value |-> v]

\* C10: a well-formed header is parsed one entry per non-blank segment, in
\* header order, duplicates kept: entry i is the trimmed name and the
\* trimmed value of non-blank segment i as the protection step returns
\* them.  Whitespace around segments and empty or trailing segments do not
\* change the result: the header parses as its canonical text does, and
\* "a=1; b=2" and "a=1;b=2;" both give a: 1, b: 2.
C10_WellFormedParse ==
    \A r \in Reqs :
        (/\ pc[r] \in {"HeaderParsed", "HandlerInvoked"}
         /\ header[r] # None)
        => LET text == Unwrap(header[r])
               store == request_storage[StorageOf(r)]
           IN  /\ Len(store) = Len(NonBlank(text))
               /\ \A i \in 1..Len(store) :
                     store[i] = Protected(NonBlank(text)[i]).cookie
               /\ store = extract_cookies(Some(Canonical(text)), <<>>).store
               /\ text \in {Hdr_a1_b2, Hdr_a1b2_} =>
                     store = <<Entry(<<"a">>, <<"1">>), Entry(<<"b">>, <<"2">>)>>

\* C10 witness: "a=1;b=2;" (no space, trailing semicolon) was parsed into
\* the two entries.
C10_Witness ==
    \E r \in Reqs :
        /\ pc[r] = "HandlerInvoked"
        /\ header[r] = Some(Hdr_a1b2_)
        /\ request_storage[StorageOf(r)] =
              <<Entry(<<"a">>, <<"1">>), Entry(<<"b">>, <<"2">>)>>

-----------------------------------------------------------------------------
(* Reading: requests whose headers carry up to MaxEntries cookies under the *)
(* names the handles read                                                   *)

MaxEntries == 3

Seg_ax == <<"a", "=", "%22", "x", "%22">>
Seg_a1 == <<"a", "=", "1">>
Seg_c1 == <<"c", "=", "1">>
Seg_c2 == <<"c", "=", "2">>
Seg_cx == <<"c", "=", "%22", "x", "%22">>
ReadSegments == {Seg_ax, Seg_a1, Seg_c1, Seg_c2, Seg_cx}

ReadHeaders ==
    {None, Some(Hdr_c1_c2)} \cup
    {Some(Join(q)) :
        q \in UNION {[1..k -> ReadSegments] : k \in 0..MaxEntries}}

\* Handlers that read through one type, once or twice, and the handlers
\* that write.
ReadTypes == {"TypeA", "TypeC", "TypeM", "TypeN"}
ReadHandlers ==
    {<<Call("get", T)>> : T \in ReadTypes}
    \cup {<<Call("get_all", T)>> : T \in ReadTypes}
    \cup {<<Call("get", T), Call("get_all", T)>> : T \in ReadTypes}
    \cup {<<Call(op, T), Call(op, T)>> :
              op \in {"get", "get_all"}, T \in ReadTypes}
    \cup {<<InsertCall("TypeA", <<"x">>), Call("discard", "TypeA")>>,
          <<Call("get", "TypeN"), Call("remove", "TypeM")>>}

InitRead == \E h \in ReadHeaders, p \in ReadHandlers : OneRequest(h, p)

SpecRead == InitRead /\ [][Next]_vars

\* The inbound entries of request r, the places of those under a name, and
\* the k-th of a set of places.
Inbound(r) == request_storage[StorageOf(r)]
PlacesOf(r, name) == {i \in 1..Len(Inbound(r)) : Inbound(r)[i].name = name}
Nth(S, k) == CHOOSE i \in S : Cardinality({j \in S : j <= i}) = k

\* What the entry at place i parses to in the read shape of type T.
ParsedAt(r, T, i) == DeserializeAs(T, Inbound(r)[i].value)

\* C11: get returns the first entry appended under the handle's name and
\* get_all returns all the entries under the name in arrival order (when
\* they parse into the read shape): inbound "c=1; c=2" read as numbers
\* gives get = 1 and get_all = [1, 2].
C11_ReadFirstAndAll ==
    \A r \in Reqs : \A i \in 1..Len(results[r]) :
        LET T == handler[r][i].type
            op == handler[r][i].op
            at == PlacesOf(r, CookieName(T))
        IN  /\ (op = "get" /\ at # {} /\ ParsedAt(r, T, Nth(at, 1)) # None)
                  => results[r][i] = OkValue(Unwrap(ParsedAt(r, T, Nth(at, 1))))
            /\ (op = "get_all" /\ at # {}
                  /\ \A k \in at : ParsedAt(r, T, k) # None)
                  => /\ results[r][i].kind = "Ok"
                     /\ Len(results[r][i].data) = Cardinality(at)
                     /\ \A k \in 1..Cardinality(at) :
                           results[r][i].data[k] =
                               Unwrap(ParsedAt(r, T, Nth(at, k)))
            /\ (header[r] = Some(Hdr_c1_c2) /\ T = "TypeN")
                  => /\ op = "get" => results[r][i] = OkValue(1)
                     /\ op = "get_all" => results[r][i] = OkValue(<<1, 2>>)

\* C11 witness: with three entries in the header, the second and the third
\* under the name read, get returned the second and get_all both, in order.
C11_Witness ==
    \E r \in Reqs :
        /\ header[r] = Some(Join(<<Seg_ax, Seg_c2, Seg_c1>>))
        /\ handler[r] = <<Call("get", "TypeN"), Call("get_all", "TypeN")>>
        /\ results[r] = <<OkValue(2), OkValue(<<2, 1>>)>>

\* The error results of a read.
ReadErrors == {"NotFound", "Deserialization"}

\* C12: get returns NotFound, with the cookie's name, exactly when no
\* inbound entry has the handle's name, and Deserialization, with the raw
\* value and the name of the read shape, exactly when the first entry under
\* the name does not parse.  Both are results of the call: the handler goes
\* on after them and the request fails only if the handler says so.
C12_GetErrors ==
    \A r \in Reqs : \A i \in 1..Len(results[r]) :
        LET T == handler[r][i].type
            at == PlacesOf(r, CookieName(T))
            res == results[r][i]
        IN  handler[r][i].op = "get" =>
              /\ res.kind \in {"Ok"} \cup ReadErrors
              /\ res.kind = "NotFound" <=> at = {}
              /\ res.kind = "NotFound" => res.data = CookieName(T)
              /\ res.kind = "Deserialization"
                    <=> (at # {} /\ ParsedAt(r, T, Nth(at, 1)) = None)
              /\ res.kind = "Deserialization"
                    => /\ res.data = Inbound(r)[Nth(at, 1)].value
                       /\ res.shape = GetShape(T)
              /\ res.kind \in ReadErrors
                    => /\ pc[r] = "Failed" => outcome[r] = HandlerFailed
                       /\ pc[r] = "HandlerInvoked" => outcome[r] = Pending

\* C12 witness: a get returned Deserialization for a first entry that is no
\* number, the handler made its next call and the response was emitted.
C12_Witness ==
    \E r \in Reqs :
        /\ pc[r] = "ResponseEmitted"
        /\ header[r] = Some(Join(<<Seg_cx, Seg_c1>>))
        /\ Len(results[r]) = 2
        /\ handler[r][1] = Call("get", "TypeN")
        /\ results[r][1] = DeserializationError(<<"\"", "x", "\"">>, "i32")

\* C13: get_all is fail-fast and gives no partial result: NotFound when no
\* entry has the handle's name; when an entry under the name does not parse,
\* the Deserialization error of the first such entry in arrival order, and
\* no value.
C13_GetAllFailFast ==
    \A r \in Reqs : \A i \in 1..Len(results[r]) :
        LET T == handler[r][i].type
            at == PlacesOf(r, CookieName(T))
            bad == {k \in at : ParsedAt(r, T, k) = None}
            res == results[r][i]
        IN  handler[r][i].op = "get_all" =>
              /\ at = {} => res = NotFound(CookieName(T))
              /\ res.kind = "NotFound" => at = {}
              /\ bad # {} =>
                    res = DeserializationError(
                              Inbound(r)[Nth(bad, 1)].value, GetShape(T))
              /\ res.kind = "Ok" => bad = {} /\ Len(res.data) = Cardinality(at)

\* C13 witness: get_all met a number, then a text that is no number, then a
\* number, and returned the error of the text.
C13_Witness ==
    \E r \in Reqs :
        /\ header[r] = Some(Join(<<Seg_c1, Seg_cx, Seg_c2>>))
        /\ handler[r] = <<Call("get_all", "TypeN")>>
        /\ results[r] = <<DeserializationError(<<"\"", "x", "\"">>, "i32")>>

\* What the client receives as Set-Cookie headers: those of the handler's
\* response when it is returned, none with the response e500 builds.
ClientHeaders(r) ==
    IF outcome[r].kind = "Response" THEN response_headers[r] ELSE <<>>

ExtractErrorKinds == {"Encoding", "NoEquals", "EmptyName", "Process"}

\* C14: a malformed header or a protection failure ends the request in the
\* 500 response of e500, the handler not having run and no Set-Cookie header
\* having been emitted; the offending cookie is not dropped to let the
\* request go on.
C14_ExtractFailureIs500 ==
    \A r \in Reqs :
        (pc[r] \notin {"NoRequest", "Idle"} /\ ~HeaderAccepted(header[r]))
        => /\ pc[r] = "Failed"
           /\ outcome[r].kind = "ExtractError"
           /\ outcome[r].status = 500
           /\ Unwrap(outcome[r].error).kind \in ExtractErrorKinds
           /\ ~HandlerReached(r)
           /\ drained[r] = None
           /\ response_headers[r] = <<>>
           /\ ClientHeaders(r) = <<>>

\* C14 witness: the second cookie of the header failed decryption after the
\* first had been accepted, and the request ended in the 500 response.
C14_Witness ==
    \E r \in Reqs :
        /\ header[r] = Some(Hdr_badenc)
        /\ pc[r] = "Failed"
        /\ outcome[r].status = 500
        /\ Unwrap(outcome[r].error).kind = "Process"
        /\ Len(request_storage[StorageOf(r)]) = 1

\* The first non-blank segment of a text that the protection step refuses,
\* every non-blank segment before it being well-formed and accepted.
FirstRefused(text) ==
    {i \in 1..Len(NonBlank(text)) :
        /\ \A j \in 1..i : WellFormed(NonBlank(text)[j])
        /\ \A j \in 1..(i - 1) : Protected(NonBlank(text)[j]).ok
        /\ ~Protected(NonBlank(text)[i]).ok}

ProtectionClasses == {"an encrypted", "a singed", "an unknown"}

\* C15: every protection failure of an incoming cookie is put into exactly
\* one of the three classes and gives an error that names the cookie and the
\* class: `an encrypted` for a cryptographic failure, `a singed` for a
\* decoding failure, `an unknown` for any other.
C15_ProtectionClasses ==
    \A r \in Reqs :
        (/\ pc[r] \notin {"NoRequest", "Idle"}
         /\ header[r] # None
         /\ ToStrOk(Unwrap(header[r]))
         /\ FirstRefused(Unwrap(header[r])) # {})
        => LET text == Unwrap(header[r])
               seg == NonBlank(text)[CHOOSE i \in FirstRefused(text) : TRUE]
               e == Unwrap(outcome[r].error)
           IN  /\ outcome[r].kind = "ExtractError"
               /\ e.kind = "Process"
               /\ e.about = Trim(SubSeq(seg, 1, IndexOf(seg, "=") - 1))
               /\ e.t \in ProtectionClasses
               /\ e.t = "an encrypted" <=> Protected(seg).class = "Crypto"
               /\ e.t = "a singed" <=> Protected(seg).class = "Decoding"
               /\ e.t = "an unknown"
                     <=> Protected(seg).class \notin {"Crypto", "Decoding"}

\* C15 witness: a cookie was refused with an error that is neither Crypto
\* nor Decoding and the request failed naming it as an unknown cookie.
C15_Witness ==
    \E r \in Reqs :
        /\ header[r] = Some(Hdr_other)
        /\ pc[r] = "Failed"
        /\ Unwrap(outcome[r].error) = ProcessError(<<"u">>, "Other")
        /\ Unwrap(outcome[r].error).t = "an unknown"

-----------------------------------------------------------------------------
(* Rendering: requests whose handlers write through TypeX, a type whose    *)
(* path holds a control character                                          *)

RenderOps ==
    {InsertCall("TypeA", <<"x">>), InsertCall("TypeX", <<"x">>),
     Call("remove", "TypeX"), Call("discard", "TypeX"),
     Call("get", "TypeA"), Call("get_all", "TypeA")}

RenderHandlers == UNION {[1..k -> RenderOps] : k \in 0..MaxOps}

InitRender ==
    \E h \in {None, Some(Hdr_ax)}, p \in RenderHandlers : OneRequest(h, p)

SpecRender == InitRender /\ [][Next]_vars

\* The taken cookies whose rendered value is no valid header value.
Unrenderable(r) ==
    IF drained[r] = None THEN {}
    ELSE {c \in Unwrap(drained[r]) : ~FromStrOk(HeaderValueOf(c))}

\* C16: if a rendered outbound value is no valid header value, the request
\* ends in the internal error of e500 after the handler has run to its end:
\* the handler's response is dropped with what was appended to it, and no
\* Set-Cookie header of the request reaches the client.
C16_RenderFailureIsFatal ==
    \A r \in Reqs :
        /\ Unrenderable(r) # {} =>
              /\ pc[r] = "Failed"
              /\ outcome[r].kind = "RenderError"
              /\ outcome[r].status = 500
              /\ Len(results[r]) = Len(handler[r])
              /\ ClientHeaders(r) = <<>>
        /\ outcome[r].kind = "RenderError" => Unrenderable(r) # {}

\* C16 witness: of two taken cookies the first rendered was appended to the
\* handler's response and the second was refused.
C16_Witness ==
    \E r \in Reqs :
        /\ outcome[r].kind = "RenderError"
        /\ Cardinality(Unwrap(drained[r])) = 2
        /\ Len(response_headers[r]) = 1
        /\ ClientHeaders(r) = <<>>

\* C17: a request whose handler was cancelled gets no response, and its
\* outbound collection is never drained nor rendered, whatever the other
\* requests do meanwhile.
C17_CancelEmitsNothing ==
    \A r \in Reqs :
        pc[r] = "Cancelled" =>
            /\ outcome[r] = Pending
            /\ drained[r] = None
            /\ response_headers[r] = <<>>
            /\ ClientHeaders(r) = <<>>

\* C17 witness: a request was cancelled after its handler had written a
\* cookie, which is still in its outbound collection, while another request
\* got its response.
C17_Witness ==
    \E r, q \in Reqs :
        /\ pc[r] = "Cancelled"
        /\ results[r] # <<>>
        /\ response_storage[StorageOf(r)] # {}
        /\ pc[q] = "ResponseEmitted"

\* C18: whenever the handler is invoked, the request's extensions hold the
\* storage made for the request, also without Cookie header, and it is the
\* storage the middleware drains: what the handler's writes leave in it is
\* what response emission takes.
C18_SameStorage ==
    \A r \in Reqs :
        /\ pc[r] \in {"HandlerInvoked", "ResponseEmitted", "Cancelled"}
              => ext[r] = Some(StorageOf(r))
        /\ pc[r] = "HandlerInvoked" =>
              response_storage[StorageOf(r)] =
                  Surviving(handler[r], Len(results[r]))
        /\ pc[r] = "ResponseEmitted" =>
              drained[r] = Some(Surviving(handler[r], Len(handler[r])))

\* C18 witness: a request without Cookie header whose handler found no
\* cookie to read and wrote one, which was taken at emission.
C18_Witness ==
    \E r \in Reqs :
        /\ header[r] = None
        /\ pc[r] = "ResponseEmitted"
        /\ ext[r] = Some(StorageOf(r))
        /\ results[r][1].kind = "NotFound"
        /\ drained[r] = Some({WrittenCookie(InsertCall("TypeA", <<"y">>))})

-----------------------------------------------------------------------------
(* Identity: requests whose handlers write through types of one name that   *)
(* declare a path, a domain, both (TypeA, TypeDom, TypePD) or neither       *)
(* (TypeBare), and insert through a type of another name (TypeC)            *)

IdentTypes == {"TypeA", "TypeDom", "TypePD", "TypeBare"}

IdentOps ==
    {InsertCall(T, <<"x">>) : T \in IdentTypes \cup {"TypeC"}}
    \cup {Call("remove", T) : T \in IdentTypes}
    \cup {Call("discard", T) : T \in IdentTypes}

\* One call to set the scene and MaxOps calls after it; the test's routes
\* for the reads.
IdentHandlers ==
    UNION {[1..k -> IdentOps] : k \in 0..(MaxOps + 1)} \cup RouteHandlers

InitIdent == \E p \in IdentHandlers : OneRequest(Some(Hdr_ax), p)

SpecIdent == InitIdent /\ [][Next]_vars

\* The outbound entries a handle of type T can have created.
CreatedBy(T) ==
    {WrittenCookie(InsertCall(T, v)) : v \in Values}
    \cup {WrittenCookie(Call("remove", T))}

\* Request r makes its next call in this step.
Calls(r) == Len(results'[r]) = Len(results[r]) + 1

\* C19: insert, remove and discard on one handle act on one (name, path,
\* domain), whichever of path and domain the type declares: an insert or a
\* remove puts its entry in the place of the entry the handle created
\* before, a discard erases that entry, and no other entry is touched.
C19_SameIdentity ==
    [][\A r \in Reqs :
          Calls(r) =>
              LET call == handler[r][Len(results[r]) + 1]
                  before == response_storage[StorageOf(r)]
                  after == response_storage'[StorageOf(r)]
              IN  /\ IsWrite(call) =>
                        /\ CookieId(WrittenCookie(call)) = KeyOfType(call.type)
                        /\ after = (before \ CreatedBy(call.type))
                                       \cup {WrittenCookie(call)}
                  /\ call.op = "discard" =>
                        after = before \ CreatedBy(call.type)]_vars

\* C19 witness: after inserts through the type with path and domain and
\* through the type with a domain only, a discard through the latter left
\* the entry of the former alone.
C19_Witness ==
    \E r \in Reqs :
        /\ pc[r] = "HandlerInvoked"
        /\ handler[r] = <<InsertCall("TypePD", <<"x">>),
                          InsertCall("TypeDom", <<"x">>),
                          Call("discard", "TypeDom")>>
        /\ Len(results[r]) = 3
        /\ response_storage[StorageOf(r)] =
              {WrittenCookie(InsertCall("TypePD", <<"x">>))}

\* C20: entries whose (name, path, domain) differ in a component coexist: a
\* write or a discard under one triple leaves every entry of another triple
\* as it is, also one of the same name with another path or domain.
C20_DistinctTriplesCoexist ==
    [][\A r \in Reqs :
          Calls(r) =>
              LET call == handler[r][Len(results[r]) + 1]
                  Others(cookies) ==
                      {c \in cookies :
                          \/ c.name # CookieName(call.type)
                          \/ c.path # TypeAttributes(call.type).path
                          \/ c.domain # TypeAttributes(call.type).domain}
              IN  TouchesOutbound(call) =>
                      Others(response_storage'[StorageOf(r)]) =
                          Others(response_storage[StorageOf(r)])]_vars

\* C20 witness: three entries of one name are held together, with a path,
\* with a domain and with neither.
C20_Witness ==
    \E r \in Reqs :
        /\ Len(results[r]) = 3
        /\ Cardinality(response_storage[StorageOf(r)]) = 3
        /\ \A c \in response_storage[StorageOf(r)] : c.name = <<"a">>
        /\ \E c \in response_storage[StorageOf(r)] :
              c.path = None /\ c.domain = None
        /\ \E c \in response_storage[StorageOf(r)] :
              c.path # None /\ c.domain = None
        /\ \E c \in response_storage[StorageOf(r)] :
              c.path = None /\ c.domain # None

-----------------------------------------------------------------------------
(* Attributes and the frame of the calls *)

\* C21: the inbound and the outbound collection are independent and the
\* inbound one is immutable once it is populated.  A call of the handler
\* never changes the inbound collection, a get or a get_all never changes
\* the outbound one, and whatever insert, remove and discard calls came
\* before it, a get or a get_all returns what it returns on the entries the
\* Cookie header was parsed to; so an insert does not make a later get of
\* the same name succeed in the same request.
C21_InboundImmutable ==
    [][\A r \in Reqs :
          Calls(r) =>
              LET i == Len(results[r]) + 1
                  call == handler[r][i]
              IN  /\ request_storage' = request_storage
                  /\ request_storage[StorageOf(r)] = OwnInbound(r)
                  /\ ~TouchesOutbound(call) =>
                        /\ response_storage' = response_storage
                        /\ results'[r][i] = OwnResult(r, i)]_vars

\* C21 witness: a cookie of name "a" was inserted, the header has none of
\* that name, and the get of "a" that followed found nothing.
C21_Witness ==
    \E r \in Reqs :
        /\ header[r] = Some(Hdr_test2)
        /\ handler[r] = <<InsertCall("TypeA", <<"x">>), Call("get", "TypeA")>>
        /\ results[r] = <<Unit, NotFound(<<"a">>)>>
        /\ response_storage[StorageOf(r)] # {}

\* The attribute sets a builder can build: every field unset or set, a
\* domain with no, one and two leading dots, every same-site setting.
AttrSets ==
    [path : {None, Some(<<"/">>)},
     domain : {None, Some(<<"d">>), Some(<<".", "d">>),
               Some(<<".", ".", "d">>)},
     secure : {None, Some(TRUE), Some(FALSE)},
     http_only : {None, Some(TRUE)},
     partitioned : {None, Some(TRUE), Some(FALSE)},
     same_site : {None, Some("Lax"), Some("Strict"), Some("None")},
     max_age : {None, Some(10)},
     expires : {None, Some(TestDate)},
     permanent : BOOLEAN]

\* A call through a handle whose attributes field is o.
OverrideCall(op, T, v, o) ==
    [op |-> op, type |-> T, value |-> v, override |-> o]

\* The attribute sets a handle is given and the sets TypeV declares against
\* them.
Overrides ==
    {None, Some(AttributesNew), Some(AttributesDefault),
     Some(attr_domain(attr_path(AttributesNew, <<"/", "p">>), <<"d">>))}
DeclaredAgainst ==
    {AttributesNew, AttributesDefault, TypeAttributes("TypeC"),
     attr_permanent(AttributesDefault, TRUE)}

OverrideOps ==
    {OverrideCall("insert", "TypeV", <<"x">>, o) : o \in Overrides}
    \cup {OverrideCall(op, "TypeV", <<>>, o) :
             op \in {"remove", "discard"}, o \in Overrides}

\* An insert through a handle, then any write through a handle.
OverrideHandlers ==
    {<<OverrideCall("insert", "TypeV", <<"y">>, o), c>> :
        o \in Overrides, c \in OverrideOps}

\* One request whose handler writes a cookie of TypeV: an insert with every
\* attribute set as the type's declared one, the writes through handles that
\* hold a set of their own, and the test's routes.
InitAttr ==
    /\ \/ /\ attrs \in AttrSets
          /\ handler = [r \in Reqs |->
                 IF r = 1 THEN <<InsertCall("TypeV", <<"x">>)>> ELSE <<>>]
       \/ /\ attrs \in DeclaredAgainst
          /\ \E p \in OverrideHandlers :
                handler = [r \in Reqs |-> IF r = 1 THEN p ELSE <<>>]
       \/ /\ attrs = AttributesNew
          /\ \E p \in RouteHandlers :
                handler = [r \in Reqs |-> IF r = 1 THEN p ELSE <<>>]
    /\ pc = [r \in Reqs |-> IF r = 1 THEN "Idle" ELSE "NoRequest"]
    /\ header = [r \in Reqs |-> IF r = 1 THEN Some(Hdr_ax) ELSE None]
    /\ results = [r \in Reqs |-> <<>>]
    /\ ext = [r \in Reqs |-> None]
    /\ request_storage = [sid \in Reqs |-> <<>>]
    /\ response_storage = [sid \in Reqs |-> {}]
    /\ drained = [r \in Reqs |-> None]
    /\ response_headers = [r \in Reqs |-> <<>>]
    /\ outcome = [r \in Reqs |-> Pending]

SpecAttr == InitAttr /\ [][Next]_vars

\* The attribute set a call is made with when it holds none of its own: the
\* one its type declares.
Declared(call) == TypeAttributes(call.type)
OwnSet(call) ==
    IF "override" \in DOMAIN call THEN call.override ELSE None

\* The entries of `cookies` that an insert of `call` through the attribute
\* set `a` is keyed with.
Inserted(cookies, call, a) ==
    {c \in cookies :
        /\ c.name = CookieName(call.type)
        /\ c.value = Serialize(call.value)
        /\ c.path = a.path
        /\ c.domain = a.domain}

\* C22: a cookie inserted with an attribute set whose permanent flag is true
\* has a max-age of 20 * 365 days in the outbound collection, and the
\* max-age and the expires of the same attribute set are superseded: the
\* entry expires 20 * 365 days from now.
C22_PermanentSupersedes ==
    [][\A r \in Reqs :
          Calls(r) =>
              LET call == handler[r][Len(results[r]) + 1]
                  sid == StorageOf(r)
              IN  (call.op = "insert" /\ OwnSet(call) = None
                   /\ Declared(call).permanent) =>
                      /\ Inserted(response_storage'[sid], call,
                                  Declared(call)) # {}
                      /\ \A c \in Inserted(response_storage'[sid], call,
                                           Declared(call)) :
                            /\ c.max_age = Some(24 * 20 * 365)
                            /\ c.expires = Some(Now + 24 * 20 * 365)]_vars

\* C22 witness: the attribute set is permanent and names a max-age and an
\* expires of its own, and the entry inserted with it has the 20 years.
C22_Witness ==
    \E r \in Reqs :
        /\ attrs.permanent
        /\ attrs.max_age = Some(10)
        /\ attrs.expires = Some(TestDate)
        /\ handler[r] = <<InsertCall("TypeV", <<"x">>)>>
        /\ Len(results[r]) = 1
        /\ \E c \in response_storage[StorageOf(r)] :
              c.max_age = Some(24 * 20 * 365)

\* The entry an insert of value v leaves when the attribute set it is made
\* with sets path p, http-only h and same-site s and nothing else.
PlainEntry(name, v, p, h, s) ==
    [name |-> name, value |-> Serialize(v), path |-> p, domain |-> None,
     secure |-> None, http_only |-> h, same_site |-> s, partitioned |-> None,
     max_age |-> None, expires |-> None]

\* The outbound entries after request r's call, when the call in this step
\* is an insert through type T.
InsertsThrough(r, T) ==
    /\ Calls(r)
    /\ handler[r][Len(results[r]) + 1].op = "insert"
    /\ handler[r][Len(results[r]) + 1].type = T

\* C23: the default attribute set, which a type that declares none is
\* inserted with, has path "/", http-only true and same-site Lax, every
\* other field (domain, secure, partitioned, max-age, expires) absent and
\* permanent false; the set new() creates has every field absent and
\* permanent false.
C23_DefaultAttributes ==
    [][\A r \in Reqs :
          /\ InsertsThrough(r, "TypeA") =>
                PlainEntry(<<"a">>, handler[r][Len(results[r]) + 1].value,
                           Some(<<"/">>), Some(TRUE), Some("Lax"))
                    \in response_storage'[StorageOf(r)]
          /\ InsertsThrough(r, "TypeBare") =>
                PlainEntry(<<"a">>, handler[r][Len(results[r]) + 1].value,
                           None, None, None)
                    \in response_storage'[StorageOf(r)]]_vars

\* C23 as stated: the default attribute set leaves same-site absent.
C23_AsStated ==
    [][\A r \in Reqs :
          /\ InsertsThrough(r, "TypeA") =>
                PlainEntry(<<"a">>, handler[r][Len(results[r]) + 1].value,
                           Some(<<"/">>), Some(TRUE), None)
                    \in response_storage'[StorageOf(r)]
          /\ InsertsThrough(r, "TypeBare") =>
                PlainEntry(<<"a">>, handler[r][Len(results[r]) + 1].value,
                           None, None, None)
                    \in response_storage'[StorageOf(r)]]_vars

\* C23 witness: a cookie inserted with the default attribute set and one
\* inserted with the set of new() are held together.
C23_Witness ==
    \E r \in Reqs :
        /\ Len(results[r]) = 2
        /\ {handler[r][1], handler[r][2]} =
              {InsertCall("TypeA", <<"x">>), InsertCall("TypeBare", <<"x">>)}
        /\ \E c \in response_storage[StorageOf(r)] :
              c.path = Some(<<"/">>) /\ c.same_site = Some("Lax")
        /\ \E c \in response_storage[StorageOf(r)] :
              c.path = None /\ c.same_site = None /\ c.http_only = None

\* The attribute set a call selects: its handle's own when it holds one,
\* else the one its type declares.
Selected(call) ==
    IF OwnSet(call) # None THEN Unwrap(OwnSet(call)) ELSE Declared(call)

\* C24: attribute resolution is an all-or-nothing selection on every insert,
\* remove and discard.  The entry an insert leaves has the path, domain,
\* secure, http-only, same-site and partitioned fields of the selected set,
\* the entry a remove leaves has its path and domain, and a discard erases
\* the entries of its path and domain, where the selected set is the
\* handle's own when it holds one and the type's declared one otherwise: a
\* field the selected set leaves absent is absent, whatever the other set
\* says.
C24_AllOrNothingAttributes ==
    [][\A r \in Reqs :
          Calls(r) =>
              LET call == handler[r][Len(results[r]) + 1]
                  sid == StorageOf(r)
                  a == Selected(call)
                  Keyed(c) ==
                      /\ c.name = CookieName(call.type)
                      /\ c.path = a.path
                      /\ c.domain = a.domain
              IN  /\ call.op = "insert" =>
                        \E c \in response_storage'[sid] :
                            /\ Keyed(c)
                            /\ c.value = Serialize(call.value)
                            /\ c.secure = a.secure
                            /\ c.http_only = a.http_only
                            /\ c.same_site = a.same_site
                            /\ c.partitioned = a.partitioned
                  /\ call.op = "remove" =>
                        \E c \in response_storage'[sid] :
                            Keyed(c) /\ c.value = <<>>
                  /\ call.op = "discard" =>
                        response_storage'[sid] =
                            {c \in response_storage[sid] : ~Keyed(c)}]_vars

\* C24 witness: the type declares the default set, the handle holds a set
\* with another path and a domain and no http-only, and the entry inserted
\* through it has that path and domain and no http-only or same-site.
C24_Witness ==
    \E r \in Reqs :
        /\ attrs = AttributesDefault
        /\ Len(results[r]) >= 1
        /\ OwnSet(handler[r][1]) =
              Some(attr_domain(attr_path(AttributesNew, <<"/", "p">>),
                               <<"d">>))
        /\ \E c \in response_storage[StorageOf(r)] :
              /\ c.path = Some(<<"/", "p">>)
              /\ c.domain = Some(<<"d">>)
              /\ c.http_only = None
              /\ c.same_site = None

\* Request r inserted one cookie of TypeV with the attribute set the type
\* declares, and its response was emitted.
EmittedOne(r) ==
    /\ pc[r] = "ResponseEmitted"
    /\ handler[r] = <<InsertCall("TypeV", <<"x">>)>>
    /\ Len(response_headers[r]) = 1

\* The Set-Cookie value has the attribute written as `word`.
HasWord(text, word) == \E i \in 1..Len(text) : text[i] = word

\* C25: a cookie whose same-site is set to None is emitted with Secure
\* unless its secure flag was set to false.  With any other same-site
\* setting, or none, a cookie that is not partitioned is emitted with Secure
\* only when its secure flag was set to true, and a partitioned cookie whose
\* secure flag was left unset is emitted with Secure.  (A partitioned cookie
\* whose secure flag was set to false is not covered.)
C25_SecureOfSameSite ==
    \A r \in Reqs :
        EmittedOne(r) =>
            LET secure == HasWord(response_headers[r][1], "; Secure")
            IN  /\ (attrs.same_site = Some("None")
                    /\ attrs.secure # Some(FALSE)) => secure
                /\ (attrs.same_site = Some("None")
                    /\ attrs.secure = Some(FALSE)
                    /\ attrs.partitioned # Some(TRUE)) => ~secure
                /\ (attrs.same_site # Some("None")
                    /\ attrs.partitioned # Some(TRUE)) =>
                       (secure <=> attrs.secure = Some(TRUE))
                /\ (attrs.same_site # Some("None")
                    /\ attrs.partitioned = Some(TRUE)
                    /\ attrs.secure # Some(FALSE)) => secure

\* C25 as stated: with same-site None, Secure is emitted unless the secure
\* flag was set to false; with every other same-site setting, Secure is
\* emitted only when the secure flag was set to true.
C25_AsStated ==
    \A r \in Reqs :
        EmittedOne(r) =>
            LET secure == HasWord(response_headers[r][1], "; Secure")
            IN  /\ (attrs.same_site = Some("None")
                    /\ attrs.secure # Some(FALSE)) => secure
                /\ (attrs.same_site = Some("None")
                    /\ attrs.secure = Some(FALSE)
                    /\ attrs.partitioned # Some(TRUE)) => ~secure
                /\ attrs.same_site # Some("None") =>
                       (secure => attrs.secure = Some(TRUE))

\* C25 witness: same-site None with the secure flag left unset and no
\* partitioned flag was emitted with Secure.
C25_Witness ==
    \E r \in Reqs :
        /\ EmittedOne(r)
        /\ attrs.same_site = Some("None")
        /\ attrs.secure = None
        /\ attrs.partitioned = None
        /\ HasWord(response_headers[r][1], "; Secure")

\* The words that start an attribute of a Set-Cookie value, and what is
\* written after one of them up to the next.
AttrWords ==
    {"; HttpOnly", "; SameSite=", "; Partitioned", "; Secure", "; Path=",
     "; Domain=", "; Max-Age=", "; Expires="}
ValueAfter(text, word) ==
    LET i == CHOOSE k \in 1..Len(text) : text[k] = word
        stops == {k \in (i + 1)..Len(text) : text[k] \in AttrWords}
        j == IF stops = {} THEN Len(text) + 1
             ELSE CHOOSE k \in stops : \A m \in stops : k <= m
    IN  SubSeq(text, i + 1, j - 1)

\* A domain as the claim has it reported: without one leading dot.
Reported(d) == IF d # <<>> /\ d[1] = "." THEN SubSeq(d, 2, Len(d)) ELSE d

\* C26: a cookie inserted with a domain that starts with a dot reports its
\* domain without that dot, and one inserted with a domain that starts with
\* no dot reports it unchanged: "..d" is reported as ".d", ".d" as "d" and
\* "d" as "d", by the outbound entry and in the Set-Cookie header.
C26_LeadingDotStripped ==
    \A r \in Reqs :
        (handler[r] = <<InsertCall("TypeV", <<"x">>)>>
         /\ attrs.domain # None) =>
            /\ \A c \in response_storage[StorageOf(r)] :
                  cookie_domain(c) = Some(Reported(Unwrap(attrs.domain)))
            /\ EmittedOne(r) =>
                  /\ HasWord(response_headers[r][1], "; Domain=")
                  /\ ValueAfter(response_headers[r][1], "; Domain=") =
                        Reported(Unwrap(attrs.domain))

\* C26 witness: a cookie inserted with the domain "..d" was emitted with
\* Domain=.d
C26_Witness ==
    \E r \in Reqs :
        /\ EmittedOne(r)
        /\ attrs.domain = Some(<<".", ".", "d">>)
        /\ HasWord(response_headers[r][1], "; Domain=")
        /\ ValueAfter(response_headers[r][1], "; Domain=") = <<".", "d">>

-----------------------------------------------------------------------------
(* The builder: an attribute set is built from new() or default() by calls *)
(* of its setters.                                                         *)

Fields ==
    {"path", "domain", "secure", "http_only", "same_site", "max_age",
     "expires", "partitioned", "permanent"}

\* What the setter of a field is called with.
FieldInputs(f) ==
    CASE f = "path" -> {<<"/">>, <<"/", "p">>}
      [] f = "domain" -> {<<"d">>, <<".", "d">>}
      [] f = "secure" -> {None, Some(TRUE), Some(FALSE)}
      [] f \in {"http_only", "partitioned"} -> {None, Some(TRUE)}
      [] f = "same_site" -> {None, Some("Lax"), Some("Strict"), Some("None")}
      [] f = "max_age" -> {None, Some(10)}
      [] f = "expires" -> {None, Some(TestDate)}
      [] f = "permanent" -> BOOLEAN

\* The setter of field f, called on a with v.
Apply(f, a, v) ==
    CASE f = "path" -> attr_path(a, v)
      [] f = "domain" -> attr_domain(a, v)
      [] f = "secure" -> attr_secure(a, v)
      [] f = "http_only" -> attr_http_only(a, v)
      [] f = "same_site" -> attr_same_site(a, v)
      [] f = "max_age" -> attr_max_age(a, v)
      [] f = "expires" -> attr_expires(a, v)
      [] f = "partitioned" -> attr_partitioned(a, v)
      [] f = "permanent" -> attr_permanent(a, v)

\* One call of a setter in the chain that builds TypeV's attributes.
Set(f, v) ==
    /\ attrs' = Apply(f, attrs, v)
    /\ UNCHANGED <<pc, header, handler, results, ext, request_storage,
                   response_storage, drained, response_headers, outcome>>

NextBuilder == \E f \in Fields : \E v \in FieldInputs(f) : Set(f, v)

InitBuilder ==
    /\ attrs \in {AttributesNew, AttributesDefault}
    /\ pc = [r \in Reqs |-> "NoRequest"]
    /\ header = [r \in Reqs |-> None]
    /\ handler = [r \in Reqs |-> <<>>]
    /\ results = [r \in Reqs |-> <<>>]
    /\ ext = [r \in Reqs |-> None]
    /\ request_storage = [sid \in Reqs |-> <<>>]
    /\ response_storage = [sid \in Reqs |-> {}]
    /\ drained = [r \in Reqs |-> None]
    /\ response_headers = [r \in Reqs |-> <<>>]
    /\ outcome = [r \in Reqs |-> Pending]

SpecBuilder == InitBuilder /\ [][NextBuilder]_vars

\* What field f holds after its setter was called with v.
Held(f, v) == IF f \in {"path", "domain"} THEN Some(v) ELSE v

\* a and b agree on every field but f.
SameBut(a, b, f) == \A g \in Fields \ {f} : a[g] = b[g]

\* C27: a setter changes its own field and no other; calling the same
\* setter again leaves only the last value; and the order in which setters
\* of different fields are called does not change the set that results.
\* This holds from every attribute set a chain of setters builds, and every
\* call in such a chain changes one field at most.
C27_SettersIndependent ==
    /\ [][\E f \in Fields : SameBut(attrs, attrs', f)]_vars
    /\ [](\A f \in Fields : \A v \in FieldInputs(f) :
            /\ Apply(f, attrs, v)[f] = Held(f, v)
            /\ SameBut(attrs, Apply(f, attrs, v), f)
            /\ \A w \in FieldInputs(f) :
                  Apply(f, Apply(f, attrs, v), w) = Apply(f, attrs, w)
            /\ \A g \in Fields \ {f} : \A w \in FieldInputs(g) :
                  Apply(g, Apply(f, attrs, v), w) =
                      Apply(f, Apply(g, attrs, w), v))

\* C27 witness: a set built by three setters, one of them called twice.
C27_Witness ==
    /\ pc = [r \in Reqs |-> "NoRequest"]
    /\ attrs = [AttributesNew EXCEPT !.path = Some(<<"/", "p">>),
                                     !.same_site = Some("None"),
                                     !.secure = Some(FALSE)]

-----------------------------------------------------------------------------
(* The round trip: a client sends a cookie it was set back in the Cookie   *)
(* header of a later request.                                              *)

\* Length of the values the round trip is run with.
MaxValLen == 2

RoundChars == {"x", " ", ";", "=", "%"}
RoundValues == UNION {[1..k -> RoundChars] : k \in 0..MaxValLen}

\* Types with the default serializer whose name the processor leaves in the
\* clear: a plain name, a name with a space, every attribute set.
RoundTypes == {"TypeA", "TypeM", "TypeC"}

\* The `name=value` of a Set-Cookie value: what is written before the first
\* attribute.
NameValueOf(text) ==
    LET stops == {k \in 1..Len(text) : text[k] \in AttrWords}
        j == IF stops = {} THEN Len(text) + 1
             ELSE CHOOSE k \in stops : \A m \in stops : k <= m
    IN  SubSeq(text, 1, j - 1)

\* The client sends a later request, in a free slot, with the name=value of
\* a Set-Cookie header of an emitted response as its Cookie header.
ClientReturns(q) ==
    /\ pc[q] = "NoRequest"
    /\ \E r \in Reqs :
          /\ pc[r] = "ResponseEmitted"
          /\ \E i \in 1..Len(response_headers[r]) :
                header' = [header EXCEPT
                    ![q] = Some(NameValueOf(response_headers[r][i]))]
    /\ pc' = [pc EXCEPT ![q] = "Idle"]
    /\ UNCHANGED <<attrs, handler, results, ext, request_storage,
                   response_storage, drained, response_headers, outcome>>

NextRound == Next \/ \E q \in Reqs : ClientReturns(q)

\* The handlers of the first request, which writes a cookie of type T, and
\* of the later ones, which read it.
WriterHandlers(T) ==
    {<<InsertCall(T, v)>> : v \in RoundValues}
    \cup {<<Call("remove", T)>>,
          <<InsertCall(T, <<"x">>), Call("discard", T), InsertCall(T, <<>>)>>}
ReaderHandlers(T) == {<<Call("get", T)>>, <<Call("get_all", T)>>}

InitRound ==
    /\ attrs = AttributesNew
    /\ \E T \in RoundTypes :
          \E w \in WriterHandlers(T), g \in ReaderHandlers(T) :
              handler = [r \in Reqs |-> IF r = 1 THEN w ELSE g]
    /\ pc = [r \in Reqs |-> IF r = 1 THEN "Idle" ELSE "NoRequest"]
    /\ header = [r \in Reqs |-> None]
    /\ results = [r \in Reqs |-> <<>>]
    /\ ext = [r \in Reqs |-> None]
    /\ request_storage = [sid \in Reqs |-> <<>>]
    /\ response_storage = [sid \in Reqs |-> {}]
    /\ drained = [r \in Reqs |-> None]
    /\ response_headers = [r \in Reqs |-> <<>>]
    /\ outcome = [r \in Reqs |-> Pending]

SpecRound == InitRound /\ [][NextRound]_vars

\* Request q was sent the cookie that request r set by its one call, an
\* insert.
SentBack(r, q) ==
    /\ Len(handler[r]) = 1
    /\ handler[r][1].op = "insert"
    /\ pc[r] = "ResponseEmitted"
    /\ Len(response_headers[r]) = 1
    /\ header[q] = Some(NameValueOf(response_headers[r][1]))

\* C28: for a type with the default serializer and a name the protection
\* step leaves as it is, a value V that was inserted, drained and rendered
\* into a Set-Cookie header is read back as V when the name=value of that
\* header is sent as the Cookie header of a later request: the header is
\* accepted, get returns V, and get_all returns V alone.
C28_RoundTrip ==
    \A r, q \in Reqs :
        SentBack(r, q) =>
            LET T == handler[r][1].type
                v == handler[r][1].value
            IN  /\ outcome[q].kind # "ExtractError"
                /\ (Len(results[q]) = 1
                    /\ handler[q] = <<Call("get", T)>>) =>
                      results[q][1] = OkValue(v)
                /\ (Len(results[q]) = 1
                    /\ handler[q] = <<Call("get_all", T)>>) =>
                      results[q][1] = OkValue(<<v>>)

\* C28 witness: the value "; " was inserted under the name "t a", sent back
\* and returned by get.
C28_Witness ==
    \E r, q \in Reqs :
        /\ SentBack(r, q)
        /\ handler[r] = <<InsertCall("TypeM", <<";", " ">>)>>
        /\ handler[q] = <<Call("get", "TypeM")>>
        /\ Len(results[q]) = 1
        /\ results[q][1] = OkValue(<<";", " ">>)

-----------------------------------------------------------------------------
(* Discard *)

\* The last call request r has made was a discard, and the call before it a
\* remove through the same handle.
RemovedThenDiscarded(r) ==
    LET n == Len(results[r])
    IN  /\ n >= 2
        /\ handler[r][n - 1].op = "remove"
        /\ handler[r][n].op = "discard"
        /\ handler[r][n - 1].type = handler[r][n].type

\* C29: discard erases whatever entry occupies its key, the removal cookie
\* of a remove as well as an inserted value.  Right after a discard the
\* outbound collection holds no entry of the handle's (name, path, domain);
\* and when a remove and then a discard through one handle were the last
\* calls of the handler, the drain holds no entry of that key and the
\* response has no Set-Cookie header for it.
C29_DiscardErasesRemoval ==
    \A r \in Reqs :
        LET n == Len(results[r])
            T == handler[r][n].type
        IN  /\ (pc[r] = "HandlerInvoked" /\ n >= 1
                /\ handler[r][n].op = "discard")
               => EntriesOf(StorageOf(r), KeyOfType(T)) = {}
            /\ (pc[r] = "ResponseEmitted" /\ RemovedThenDiscarded(r))
               => /\ \A c \in Unwrap(drained[r]) : CookieId(c) # KeyOfType(T)
                  /\ HeaderSet(response_headers[r])
                        \cap HeadersOfKey(KeyOfType(T)) = {}

\* C29 witness: remove then discard through one handle, and the response
\* was emitted with nothing drained and no Set-Cookie header.
C29_Witness ==
    \E r \in Reqs :
        /\ pc[r] = "ResponseEmitted"
        /\ Len(handler[r]) = 2
        /\ RemovedThenDiscarded(r)
        /\ drained[r] = Some({})
        /\ response_headers[r] = <<>>

\* C30: no storage operation fails.  Whenever the next call of a handler is
\* an insert, a remove or a discard, the call can be made; it returns unit
\* and leaves the request running; and a discard on a key that has no
\* outbound entry, in an empty collection too, leaves the outbound
\* collection as it is.
C30_WritesNeverFail ==
    /\ [](\A r \in Reqs :
            /\ NextCallIs(r, "insert") => ENABLED Insert(r)
            /\ NextCallIs(r, "remove") => ENABLED Remove(r)
            /\ NextCallIs(r, "discard") => ENABLED Discard(r))
    /\ [][\A r \in Reqs :
            Calls(r) =>
                LET i == Len(results[r]) + 1
                    call == handler[r][i]
                IN  TouchesOutbound(call) =>
                        /\ results'[r][i] = Unit
                        /\ pc' = pc /\ outcome' = outcome
                        /\ (call.op = "discard"
                            /\ EntriesOf(StorageOf(r),
                                         KeyOfType(call.type)) = {})
                           => response_storage' = response_storage]_vars

\* C30 witness: a discard was made on an empty outbound collection, returned
\* unit and left the collection empty.
C30_Witness ==
    \E r \in Reqs :
        /\ pc[r] = "HandlerInvoked"
        /\ Len(handler[r]) >= 1
        /\ handler[r][1].op = "discard"
        /\ results[r] = <<Unit>>
        /\ response_storage[StorageOf(r)] = {}

-----------------------------------------------------------------------------
(* Handles, keys and outcomes *)

\* C31: every handle built from the storage of a request shares its two
\* collections.  Each call is made through a handle of its own, built from
\* the storage in the request's extensions; its cells are the request's, a
\* write acts on what the handles before it left (it replaces or erases the
\* entry of its key and leaves the rest), no other storage changes, and the
\* drain takes what the handles left.
C31_HandlesShareStorage ==
    [][\A r \in Reqs :
          /\ Calls(r) =>
                LET call == handler[r][Len(results[r]) + 1]
                    sid == StorageOf(r)
                    rest == {c \in response_storage[sid] :
                                CookieId(c) # KeyOfType(call.type)}
                IN  /\ Handle(r).storage = sid
                    /\ \A s \in Reqs \ {sid} :
                          response_storage'[s] = response_storage[s]
                    /\ IsWrite(call) =>
                          response_storage'[sid] =
                              rest \cup {WrittenCookie(call)}
                    /\ call.op = "discard" => response_storage'[sid] = rest
          /\ (pc[r] = "HandlerInvoked" /\ drained'[r] # drained[r]) =>
                drained'[r] = Some(response_storage[StorageOf(r)])]_vars

\* C31 witness: a cookie was inserted through one handle and discarded
\* through another of the same type, and the collection is empty again.
C31_Witness ==
    \E r \in Reqs :
        /\ pc[r] = "HandlerInvoked"
        /\ handler[r] = <<InsertCall("TypeA", <<"x">>),
                          Call("discard", "TypeA")>>
        /\ Len(results[r]) = 2
        /\ response_storage[StorageOf(r)] = {}

\* The calls request r has made on key id, by their place in the handler.
CallsOn(r, id) ==
    {k \in 1..Len(results[r]) :
        TouchesOutbound(handler[r][k]) /\ KeyOfType(handler[r][k].type) = id}

\* The keys the handler of request r acts on.
KeysOf(r) ==
    {KeyOfType(handler[r][k].type) : k \in 1..Len(handler[r])}

\* C32: while the handler runs, the outbound collection holds at most one
\* entry per (name, path, domain); the entry of a key is what the most
\* recent insert or remove on the key wrote when no discard on the key came
\* after it, and the key has no entry when its most recent call was a
\* discard or it was never written.
C32_OneEntryPerKey ==
    \A r \in Reqs :
        pc[r] = "HandlerInvoked" =>
            \A id \in KeysOf(r) :
                LET on == CallsOn(r, id)
                    last == CHOOSE k \in on : \A j \in on : j <= k
                    held == EntriesOf(StorageOf(r), id)
                IN  /\ Cardinality(held) <= 1
                    /\ (on = {} \/ handler[r][last].op = "discard")
                          => held = {}
                    /\ (on # {} /\ handler[r][last].op # "discard")
                          => held = {WrittenCookie(handler[r][last])}

\* C32 witness: insert, discard and remove on one key, which holds the
\* removal cookie of the last call and nothing else.
C32_Witness ==
    \E r \in Reqs :
        /\ pc[r] = "HandlerInvoked"
        /\ handler[r] = <<InsertCall("TypeA", <<"x">>),
                          Call("discard", "TypeA"), Call("remove", "TypeA")>>
        /\ Len(results[r]) = 3
        /\ response_storage[StorageOf(r)] =
              {WrittenCookie(Call("remove", "TypeA"))}

\* C33: a removal cookie takes only the path and the domain of the selected
\* attribute set: the entry a remove leaves has these two, an empty value
\* and an expiry at the epoch, and no secure, http-only, same-site,
\* partitioned or max-age, whether or not the set is permanent; and the
\* response to a handler that only removes the cookie of a type declaring
\* same-site Lax and http-only and no path has the one Set-Cookie header
\* `name=; Expires=Thu, 01 Jan 1970 00:00:00 GMT`.
C33_RemovalPathAndDomainOnly ==
    /\ [][\A r \in Reqs :
            Calls(r) =>
                LET call == handler[r][Len(results[r]) + 1]
                    a == Selected(call)
                IN  call.op = "remove" =>
                        [name |-> CookieName(call.type), value |-> <<>>,
                         path |-> a.path, domain |-> a.domain,
                         secure |-> None, http_only |-> None,
                         same_site |-> None, partitioned |-> None,
                         max_age |-> None, expires |-> Some(UnixEpoch)]
                            \in response_storage'[StorageOf(r)]]_vars
    /\ [](\A r \in Reqs :
            (pc[r] = "ResponseEmitted"
             /\ handler[r] = <<Call("remove", "TypeM")>>) =>
                response_headers[r] =
                    <<<<"t", "%20", "a", "=", "; Expires=",
                        "Thu, 01 Jan 1970 00:00:00 GMT">>>>)

\* C33 witness: the cookie of a type that declares every attribute was
\* removed, and the entry left has the type's path and no secure flag.
C33_Witness ==
    \E r \in Reqs :
        /\ attrs = TypeAttributes("TypeC")
        /\ Len(results[r]) = 2
        /\ handler[r][2] = OverrideCall("remove", "TypeV", <<>>, None)
        /\ \E c \in response_storage[StorageOf(r)] :
              /\ c.value = <<>>
              /\ c.path = Some(<<"/", "s">>)
              /\ c.secure = None

\* A text without its whitespace, and the number of '=' in a text.
NoSpace(s) == SelectSeq(s, LAMBDA c : c \notin Whitespace)
EqualsIn(s) == Cardinality({i \in 1..Len(s) : s[i] = "="})

\* The header is written in the clear: no percent-encoded byte in it.
ClearText(text) == \A i \in 1..Len(text) : text[i] \in HeaderChars

\* C34: extraction splits every segment once, on its first `=`, and trims
\* both sides.  For an accepted header in clear text there is one inbound
\* entry per segment that is not all whitespace, in order; the name has no
\* `=` and is not empty, name and value have no whitespace at their ends,
\* and name, `=` and value give the segment back up to whitespace, so every
\* further `=` is part of the value.  "a==1" gives a: "=1", "a=" gives a
\* with an empty value, and " ;a=" gives that entry alone.
C34_SplitOnFirstEquals ==
    \A r \in Reqs :
        (/\ pc[r] \in {"HeaderParsed", "HandlerInvoked"}
         /\ header[r] # None
         /\ ClearText(Unwrap(header[r])))
        => LET text == Unwrap(header[r])
               segs == NonBlank(text)
               store == request_storage[StorageOf(r)]
           IN  /\ Len(store) = Len(segs)
               /\ \A i \in 1..Len(store) :
                     /\ store[i].name # <<>>
                     /\ EqualsIn(store[i].name) = 0
                     /\ EqualsIn(store[i].value) = EqualsIn(segs[i]) - 1
                     /\ Trim(store[i].name) = store[i].name
                     /\ Trim(store[i].value) = store[i].value
                     /\ NoSpace(segs[i]) =
                           NoSpace(store[i].name) \o <<"=">>
                               \o NoSpace(store[i].value)
               /\ text = <<"a", "=", "=", "1">> =>
                     store = <<Entry(<<"a">>, <<"=", "1">>)>>
               /\ text \in {<<"a", "=">>, <<" ", ";", "a", "=">>} =>
                     store = <<Entry(<<"a">>, <<>>)>>

\* C34 witness: "a==1" was parsed into the one entry a with the value "=1".
C34_Witness ==
    \E r \in Reqs :
        /\ pc[r] = "HandlerInvoked"
        /\ header[r] = Some(<<"a", "=", "=", "1">>)
        /\ request_storage[StorageOf(r)] = <<Entry(<<"a">>, <<"=", "1">>)>>

\* A segment extraction stops at: not all whitespace, and malformed or
\* refused by the protection step.  The error it stops with.
Offending(seg) ==
    ~AllWhitespace(seg) /\ (~WellFormed(seg) \/ ~Protected(seg).ok)
ErrorOf(seg) ==
    LET i == IndexOf(seg, "=")
        name == Trim(SubSeq(seg, 1, i - 1))
        value == Trim(SubSeq(seg, i + 1, Len(seg)))
    IN  IF i = 0 THEN NoEqualsError(seg)
        ELSE IF name = <<>> THEN EmptyNameError(value)
        ELSE ProcessError(name, Protected(seg).class)

\* C35: extraction is fail-fast in header order.  When a header that reads
\* as a string has an offending segment, the request fails with the error
\* of the first one, whatever follows it; the inbound collection holds the
\* entries of the segments before it and none of a later segment; and the
\* storage that holds them is in no request's extensions, then or later.
C35_FailFastInOrder ==
    \A r \in Reqs :
        (/\ pc[r] \notin {"NoRequest", "Idle"}
         /\ header[r] # None
         /\ ToStrOk(Unwrap(header[r]))
         /\ \E i \in 1..Len(NonBlank(Unwrap(header[r]))) :
               Offending(NonBlank(Unwrap(header[r]))[i]))
        => LET segs == NonBlank(Unwrap(header[r]))
               k == CHOOSE i \in 1..Len(segs) :
                       /\ Offending(segs[i])
                       /\ \A j \in 1..(i - 1) : ~Offending(segs[j])
           IN  /\ pc[r] = "Failed"
               /\ outcome[r] = e500("ExtractError", ErrorOf(segs[k]))
               /\ request_storage[StorageOf(r)] =
                     [i \in 1..(k - 1) |-> Protected(segs[i]).cookie]
               /\ \A q \in Reqs : ext[q] # Some(StorageOf(r))

\* C35 witness: "a=;1" failed on its second segment with the first one
\* appended to a storage no request holds.
C35_Witness ==
    \E r \in Reqs :
        /\ header[r] = Some(<<"a", "=", ";", "1">>)
        /\ pc[r] = "Failed"
        /\ Unwrap(outcome[r].error) = NoEqualsError(<<"1">>)
        /\ request_storage[StorageOf(r)] = <<Entry(<<"a">>, <<>>)>>
        /\ ext[r] = None

\* C36: when the handler completes with an error, the request's outcome is
\* that error as the handler returned it, not an e500 of the middleware;
\* the outbound collection is not taken and nothing of it is rendered: what
\* the handler wrote before it failed stays in the storage and no
\* Set-Cookie header is made of it.
C36_HandlerErrorPassedOn ==
    \A r \in Reqs :
        outcome[r].kind = "HandlerError" =>
            /\ pc[r] = "Failed"
            /\ outcome[r] = HandlerFailed
            /\ drained[r] = None
            /\ response_headers[r] = <<>>
            /\ ClientHeaders(r) = <<>>
            /\ response_storage[StorageOf(r)] =
                  Surviving(handler[r], Len(results[r]))

\* C36 witness: the handler inserted a cookie and then failed; the cookie is
\* still in the storage and no header was emitted.
C36_Witness ==
    \E r \in Reqs :
        /\ outcome[r] = HandlerFailed
        /\ Len(results[r]) >= 1
        /\ handler[r][1].op = "insert"
        /\ response_storage[StorageOf(r)] # {}
        /\ response_headers[r] = <<>>

\* The handler of request r is about to make a call.
AboutToCall(r) ==
    /\ pc[r] = "HandlerInvoked"
    /\ ext[r] # None
    /\ Len(results[r]) < Len(handler[r])

\* C37: the handle a call is made through holds no attribute set of its
\* own, in every state a call is made from; so the call resolves its
\* attributes to the ones its type declares, and the (name, path, domain)
\* it computes is the one every other handle of the type computes.
C37_NoOverride ==
    \A r \in Reqs :
        AboutToCall(r) =>
            /\ Handle(r).attributes = None
            /\ ResolveAttributes(Handle(r)) = TypeAttributes(NextCall(r).type)
            /\ set_attributes_id(
                   ResponseCookieIdNew(CookieName(NextCall(r).type)),
                   ResolveAttributes(Handle(r))) = KeyOfType(NextCall(r).type)
            /\ \A k \in 1..Len(results[r]) :
                  handler[r][k].type = NextCall(r).type =>
                      KeyOfType(handler[r][k].type) =
                          CookieId(set_attributes_removal(
                              RemovalCookieNew(CookieName(NextCall(r).type)),
                              ResolveAttributes(Handle(r))))

\* C37 witness: a cookie was inserted through one handle of a type that
\* declares a path, and a second handle of the type is about to remove it.
C37_Witness ==
    \E r \in Reqs :
        /\ AboutToCall(r)
        /\ handler[r] = <<InsertCall("TypeB", <<"x">>), Call("remove", "TypeB")>>
        /\ Len(results[r]) = 1
        /\ Handle(r).attributes = None
        /\ response_storage[StorageOf(r)] # {}

\* The call that the step of request r completes is a read.
Reads(r) ==
    /\ Calls(r)
    /\ handler[r][Len(results'[r])].op \in {"get", "get_all"}

\* C38: a get or get_all step leaves the inbound and the outbound
\* collection as they were, whether it returns a value, NotFound or a
\* Deserialization error; and a read made twice in a row returns the same
\* result twice.
C38_ReadsArePure ==
    /\ [][\A r \in Reqs :
             Reads(r) =>
                 /\ request_storage' = request_storage
                 /\ response_storage' = response_storage
                 /\ results'[r][Len(results'[r])].kind \in
                        {"Ok", "NotFound", "Deserialization"}]_vars
    /\ [](\A r \in Reqs :
             \A k \in 2..Len(results[r]) :
                 (/\ handler[r][k] = handler[r][k - 1]
                  /\ handler[r][k].op \in {"get", "get_all"})
                     => results[r][k] = results[r][k - 1])

\* C38 witness: get was called twice on a cookie whose value is not of the
\* type's shape; both calls returned the Deserialization error and the
\* inbound entry is still there.
C38_Witness ==
    \E r \in Reqs :
        /\ handler[r] = <<Call("get", "TypeN"), Call("get", "TypeN")>>
        /\ Len(results[r]) = 2
        /\ results[r][1].kind = "Deserialization"
        /\ results[r][2] = results[r][1]
        /\ header[r] = Some(Seg_cx)
        /\ Len(request_storage[StorageOf(r)]) = 1
        /\ request_storage[StorageOf(r)][1].name = <<"c">>
        /\ response_storage[StorageOf(r)] = {}

\* The request of slot r carries a Cookie header that is not a string.
Unreadable(r) ==
    /\ header[r] # None
    /\ ~ToStrOk(Unwrap(header[r]))

\* C39: once extraction has run on a request whose Cookie header is present
\* but is not a string, the request has failed with the 500 of the header
\* encoding error, whatever its segments are; no entry was parsed into the
\* storage, the storage was not attached and the handler made no call.  A
\* request without the header does not fail at extraction.
C39_UnreadableHeaderFails ==
    \A r \in Reqs :
        pc[r] \notin {"NoRequest", "Idle"} =>
            /\ Unreadable(r) =>
                  /\ pc[r] = "Failed"
                  /\ outcome[r] = e500("ExtractError", EncodingError)
                  /\ outcome[r].status = 500
                  /\ request_storage[StorageOf(r)] = <<>>
                  /\ \A q \in Reqs : ext[q] # Some(StorageOf(r))
                  /\ results[r] = <<>>
                  /\ response_headers[r] = <<>>
            /\ header[r] = None => outcome[r].kind # "ExtractError"

\* C39 witness: the header "a1;a=<80>" failed the request with the encoding
\* error, not with the error of its first segment.
C39_Witness ==
    \E r \in Reqs :
        /\ header[r] = Some(Hdr_noeq_opaque)
        /\ pc[r] = "Failed"
        /\ outcome[r] = e500("ExtractError", EncodingError)
        /\ request_storage[StorageOf(r)] = <<>>
        /\ ext[r] = None

-----------------------------------------------------------------------------
(* Progress: concurrent requests whose futures are polled until they are   *)
(* ready or dropped                                                        *)

LiveHeaders == {None, Some(Hdr_noeq)}
LiveHandlers ==
    {<<InsertCall("TypeX", <<"x">>)>>,
     <<Call("get_all", "TypeA"), Call("remove", "TypeA")>>,
     <<Call("get", "TypeA"), Call("discard", "TypeA")>>}

\* Every handler behind a request without a Cookie header, and one request
\* with a malformed header.
LiveRequests ==
    {q \in [header : LiveHeaders, handler : LiveHandlers] :
        q.header = None \/ Len(q.handler) = 1}

InitLive ==
    /\ attrs = AttributesNew
    /\ pc = [r \in Reqs |-> "Idle"]
    /\ \E q \in [Reqs -> LiveRequests] :
          /\ header = [r \in Reqs |-> q[r].header]
          /\ handler = [r \in Reqs |-> q[r].handler]
    /\ results = [r \in Reqs |-> <<>>]
    /\ ext = [r \in Reqs |-> None]
    /\ request_storage = [sid \in Reqs |-> <<>>]
    /\ response_storage = [sid \in Reqs |-> {}]
    /\ drained = [r \in Reqs |-> None]
    /\ response_headers = [r \in Reqs |-> <<>>]
    /\ outcome = [r \in Reqs |-> Pending]

\* A step of the future of request r or of its handler: every step but the
\* drop of the future.
Step(r) ==
    \/ Extract(r)
    \/ Invoke(r)
    \/ Get(r)
    \/ GetAll(r)
    \/ Insert(r)
    \/ Remove(r)
    \/ Discard(r)
    \/ HandlerReturnsOk(r)
    \/ HandlerReturnsErr(r)

\* The code of call before and after the await has no suspension point, so
\* a future that is polled runs it; the handler, while it is not dropped,
\* goes on until it returns.
Fairness == \A r \in Reqs : WF_vars(Step(r))

SpecLive == InitLive /\ [][Next]_vars /\ Fairness

\* The four ways call returns.
ExtractionError(r) ==
    /\ pc[r] = "Failed"
    /\ outcome[r].kind = "ExtractError"
    /\ results[r] = <<>>
    /\ \A q \in Reqs : ext[q] # Some(StorageOf(r))
HandlerError(r) ==
    /\ pc[r] = "Failed"
    /\ outcome[r] = HandlerFailed
    /\ response_headers[r] = <<>>
RenderError(r) ==
    /\ pc[r] = "Failed"
    /\ outcome[r].kind = "RenderError"
    /\ outcome[r].status = 500
    /\ Len(results[r]) = Len(handler[r])
ResponseReturned(r) ==
    /\ pc[r] = "ResponseEmitted"
    /\ outcome[r] = Responded
    /\ drained[r] # None
    /\ Len(response_headers[r]) = Cardinality(Unwrap(drained[r]))
Ended(r) ==
    Cardinality({k \in 1..4 :
        \/ k = 1 /\ ExtractionError(r)
        \/ k = 2 /\ HandlerError(r)
        \/ k = 3 /\ RenderError(r)
        \/ k = 4 /\ ResponseReturned(r)}) = 1

\* C40: every request comes to be in exactly one of the four outcomes,
\* unless its future is dropped while the handler has not returned; a
\* request that has an outcome or was dropped takes no further step, so its
\* outcome is produced once; and a request without an outcome is in no
\* final state.
C40_EveryRequestEnds ==
    /\ \A r \in Reqs : []<>(Ended(r) \/ pc[r] = "Cancelled")
    /\ [][\A r \in Reqs :
             outcome[r] # Pending \/ pc[r] = "Cancelled" =>
                 /\ outcome'[r] = outcome[r]
                 /\ pc'[r] = pc[r]
                 /\ response_headers'[r] = response_headers[r]]_vars
    /\ [](\A r \in Reqs :
             /\ outcome[r] # Pending <=> pc[r] \in {"Failed", "ResponseEmitted"}
             /\ outcome[r] # Pending => Ended(r))

\* C40 witness: of two requests served at once, one ended with a render
\* error and the other with its response and a Set-Cookie header.
C40_Witness ==
    \E r, q \in Reqs :
        /\ Ended(r)
        /\ RenderError(r)
        /\ Ended(q)
        /\ ResponseReturned(q)
        /\ response_headers[q] # <<>>

=============================================================================
